---- MODULE Spec2Model ----
(***************************************************************************)
(* A model of the X-Road-Metrics anonymizer                                *)
(* (anonymizer_module/opmon_anonymizer/anonymizer.py): the batching driver *)
(* Anonymizer.anonymize and the per-batch AnonymizationJob.run with its    *)
(* splitting, hiding, substitution and transformer stages.                 *)
(***************************************************************************)
EXTENDS Integers, Sequences, FiniteSets, TLC

(***************************************************************************)
(* Values carried by record fields: Python str, int and None.             *)
(***************************************************************************)
StrVal(s) == [tag |-> "str", s |-> s, n |-> 0]
IntVal(n) == [tag |-> "int", s |-> "", n |-> n]
None == [tag |-> "none", s |-> "", n |-> 0]

\* Python's str(value), as used in pattern.match(str(value)).
str(value) ==
    CASE value.tag = "str" -> value.s
      [] value.tag = "int" -> ToString(value.n)
      [] value.tag = "none" -> "None"

(***************************************************************************)
(* Compiled regular expressions.  A pattern is the literal it looks for    *)
(* and whether the expression ends with "$".  pattern.match anchors at the *)
(* start of the string whether or not the expression begins with "^".      *)
(***************************************************************************)
Regex(lit, dollar) == [lit |-> lit, dollar |-> dollar]

StartsWith(s, lit) == Len(lit) <= Len(s) /\ SubSeq(s, 1, Len(lit)) = lit

pattern_match(pattern, s) ==
    IF pattern.dollar THEN s = pattern.lit ELSE StartsWith(s, pattern.lit)

Condition(feature, pattern) == [feature |-> feature, pattern |-> pattern]
Substitute(feature, value) == [feature |-> feature, value |-> value]

(***************************************************************************)
(* AnonymizationJob._record_matches_conditions: the for/else loop over the *)
(* conditions; a missing field or a failed match breaks out, which skips   *)
(* the else branch and returns False.                                      *)
(***************************************************************************)
RECURSIVE matches_from(_, _, _)
matches_from(record, conditions, i) ==
    IF i > Len(conditions) THEN TRUE
    ELSE IF conditions[i].feature \notin DOMAIN record THEN FALSE
    ELSE IF ~pattern_match(conditions[i].pattern, str(record[conditions[i].feature]))
         THEN FALSE
    ELSE matches_from(record, conditions, i + 1)

\* A variant that goes on to the next condition when the field is missing.
RECURSIVE matches_skipping_missing_from(_, _, _)
matches_skipping_missing_from(record, conditions, i) ==
    IF i > Len(conditions) THEN TRUE
    ELSE IF conditions[i].feature \notin DOMAIN record
         THEN matches_skipping_missing_from(record, conditions, i + 1)
    ELSE IF ~pattern_match(conditions[i].pattern, str(record[conditions[i].feature]))
         THEN FALSE
    ELSE matches_skipping_missing_from(record, conditions, i + 1)

matches_skipping_missing(record, conditions) ==
    matches_skipping_missing_from(record, conditions, 1)

\* A variant for which a rule without conditions matches no record.
matches_some_condition(record, conditions) ==
    conditions # <<>> /\ matches_from(record, conditions, 1)

record_matches_conditions(record, conditions) == matches_from(record, conditions, 1)

(***************************************************************************)
(* AnonymizationJob._should_be_hidden: the first hiding rule whose         *)
(* conditions the record matches returns True.                             *)
(***************************************************************************)
RECURSIVE hidden_from(_, _, _)
hidden_from(record, hiding_rules, i) ==
    IF i > Len(hiding_rules) THEN FALSE
    ELSE IF record_matches_conditions(record, hiding_rules[i]) THEN TRUE
    ELSE hidden_from(record, hiding_rules, i + 1)

\* A variant that returns from inside the loop after the first rule.
hidden_by_first_rule(record, hiding_rules) ==
    IF hiding_rules = <<>> THEN FALSE
    ELSE record_matches_conditions(record, hiding_rules[1])

should_be_hidden(record, hiding_rules) == hidden_from(record, hiding_rules, 1)

(***************************************************************************)
(* AnonymizationJob._substitute.  apply_substitutes is the inner loop      *)
(* record[substitute['feature']] = substitute['value']; substitute_from is *)
(* the outer loop over the rules, each tested on the record as it is then. *)
(* The result carries the record and, for the claims, the indices of the   *)
(* rules that fired.                                                       *)
(***************************************************************************)
SetItem(record, key, value) ==
    [k \in DOMAIN record \cup {key} |-> IF k = key THEN value ELSE record[k]]

RECURSIVE apply_substitutes(_, _, _)
apply_substitutes(record, substitutes, j) ==
    IF j > Len(substitutes) THEN record
    ELSE apply_substitutes(
             SetItem(record, substitutes[j].feature, substitutes[j].value),
             substitutes, j + 1)

RECURSIVE substitute_from(_, _, _, _)
substitute_from(record, substitution_rules, i, fired) ==
    IF i > Len(substitution_rules) THEN [record |-> record, fired |-> fired]
    ELSE IF record_matches_conditions(record, substitution_rules[i].conditions)
         THEN substitute_from(
                  apply_substitutes(record, substitution_rules[i].substitutes, 1),
                  substitution_rules, i + 1, Append(fired, i))
    ELSE substitute_from(record, substitution_rules, i + 1, fired)

\* A variant that goes through the rules from the last to the first.
substitute_reversed(record, substitution_rules) ==
    LET n == Len(substitution_rules)
        r == substitute_from(record,
                 [i \in 1..n |-> substitution_rules[n + 1 - i]], 1, <<>>)
    IN  [record |-> r.record,
         fired |-> [k \in 1..Len(r.fired) |-> n + 1 - r.fired[k]]]

\* A variant that tests every rule's conditions on the record as it was
\* given.
RECURSIVE substitute_from_original(_, _, _, _, _)
substitute_from_original(original, record, substitution_rules, i, fired) ==
    IF i > Len(substitution_rules) THEN [record |-> record, fired |-> fired]
    ELSE IF record_matches_conditions(original, substitution_rules[i].conditions)
         THEN substitute_from_original(
                  original,
                  apply_substitutes(record, substitution_rules[i].substitutes, 1),
                  substitution_rules, i + 1, Append(fired, i))
    ELSE substitute_from_original(original, record, substitution_rules,
                                  i + 1, fired)

substitute_testing_original(record, substitution_rules) ==
    substitute_from_original(record, record, substitution_rules, 1, <<>>)

substitute(record, substitution_rules) ==
    substitute_from(record, substitution_rules, 1, <<>>)

(***************************************************************************)
(* AnonymizationJob._get_agent_record.  A lookup of a key that has no      *)
(* entry in a translation table raises KeyError.  The record is built from *)
(* the agent's translated fields, then the shared top-level fields are     *)
(* assigned over it, then every masked field is assigned None.  (The       *)
(* translation tables used below are injective per agent, so the order in  *)
(* which the dict comprehension visits the agent's keys does not matter.)  *)
(***************************************************************************)
AgentKeys == {"client", "producer"}

Raised == [raised |-> TRUE]

\* A variant that leaves out the keys that have no translation.
get_agent_record_skipping_untranslated(agent, dual_record, job) ==
    LET agent_translation_table == job.field_translations[agent]
        agent_fields == dual_record[agent]
        agent_keys == DOMAIN agent_fields \cap DOMAIN agent_translation_table
        shared_keys == (DOMAIN dual_record \ AgentKeys)
                           \cap DOMAIN job.field_translations
        translated == {agent_translation_table[k] : k \in agent_keys}
        shared == {job.field_translations[k] : k \in shared_keys}
        masked == job.field_value_masks[agent]
        record == [f \in translated \cup shared \cup masked |->
            IF f \in masked THEN None
            ELSE IF f \in shared
                 THEN dual_record[CHOOSE k \in shared_keys :
                                      job.field_translations[k] = f]
            ELSE agent_fields[CHOOSE k \in agent_keys :
                                  agent_translation_table[k] = f]]
    IN  [raised |-> FALSE, record |-> record]

\* A variant that masks only the fields the record already holds.
get_agent_record_masking_present(agent, dual_record, job) ==
    LET agent_translation_table == job.field_translations[agent]
        agent_fields == dual_record[agent]
        shared_keys == DOMAIN dual_record \ AgentKeys
        translated == {agent_translation_table[k] : k \in DOMAIN agent_fields}
        shared == {job.field_translations[k] : k \in shared_keys}
        masked == job.field_value_masks[agent]
        record == [f \in translated \cup shared |->
            IF f \in masked THEN None
            ELSE IF f \in shared
                 THEN dual_record[CHOOSE k \in shared_keys :
                                      job.field_translations[k] = f]
            ELSE agent_fields[CHOOSE k \in DOMAIN agent_fields :
                                  agent_translation_table[k] = f]]
    IN  IF \E k \in DOMAIN agent_fields : k \notin DOMAIN agent_translation_table
        THEN Raised
        ELSE IF \E k \in shared_keys : k \notin DOMAIN job.field_translations
        THEN Raised
        ELSE [raised |-> FALSE, record |-> record]

\* A variant that leaves the shared top-level fields out of the record.
get_agent_record_without_shared(agent, dual_record, job) ==
    LET agent_translation_table == job.field_translations[agent]
        agent_fields == dual_record[agent]
        shared_keys == DOMAIN dual_record \ AgentKeys
        translated == {agent_translation_table[k] : k \in DOMAIN agent_fields}
        masked == job.field_value_masks[agent]
        record == [f \in translated \cup masked |->
            IF f \in masked THEN None
            ELSE agent_fields[CHOOSE k \in DOMAIN agent_fields :
                                  agent_translation_table[k] = f]]
    IN  IF \E k \in DOMAIN agent_fields : k \notin DOMAIN agent_translation_table
        THEN Raised
        ELSE IF \E k \in shared_keys : k \notin DOMAIN job.field_translations
        THEN Raised
        ELSE [raised |-> FALSE, record |-> record]

\* A variant that assigns the agent's fields after the shared fields.
get_agent_record_agent_over_shared(agent, dual_record, job) ==
    LET agent_translation_table == job.field_translations[agent]
        agent_fields == dual_record[agent]
        shared_keys == DOMAIN dual_record \ AgentKeys
        translated == {agent_translation_table[k] : k \in DOMAIN agent_fields}
        shared == {job.field_translations[k] : k \in shared_keys}
        masked == job.field_value_masks[agent]
        record == [f \in translated \cup shared \cup masked |->
            IF f \in masked THEN None
            ELSE IF f \in translated
                 THEN agent_fields[CHOOSE k \in DOMAIN agent_fields :
                                       agent_translation_table[k] = f]
            ELSE dual_record[CHOOSE k \in shared_keys :
                                 job.field_translations[k] = f]]
    IN  IF \E k \in DOMAIN agent_fields : k \notin DOMAIN agent_translation_table
        THEN Raised
        ELSE IF \E k \in shared_keys : k \notin DOMAIN job.field_translations
        THEN Raised
        ELSE [raised |-> FALSE, record |-> record]

get_agent_record(agent, dual_record, job) ==
    LET agent_translation_table == job.field_translations[agent]
        agent_fields == dual_record[agent]
        shared_keys == DOMAIN dual_record \ AgentKeys
        translated == {agent_translation_table[k] : k \in DOMAIN agent_fields}
        shared == {job.field_translations[k] : k \in shared_keys}
        masked == job.field_value_masks[agent]
        record == [f \in translated \cup shared \cup masked |->
            IF f \in masked THEN None
            ELSE IF f \in shared
                 THEN dual_record[CHOOSE k \in shared_keys :
                                      job.field_translations[k] = f]
            ELSE agent_fields[CHOOSE k \in DOMAIN agent_fields :
                                  agent_translation_table[k] = f]]
    IN  IF \E k \in DOMAIN agent_fields : k \notin DOMAIN agent_translation_table
        THEN Raised
        ELSE IF \E k \in shared_keys : k \notin DOMAIN job.field_translations
        THEN Raised
        ELSE [raised |-> FALSE, record |-> record]

(***************************************************************************)
(* AnonymizationJob._get_records: the client record, if the dual record    *)
(* has a client key, then the producer record, if it has a producer key.   *)
(***************************************************************************)
\* A variant that puts the producer's record first.
get_records_producer_first(dual_record, job) ==
    LET client == IF "client" \in DOMAIN dual_record
                  THEN get_agent_record("client", dual_record, job)
                  ELSE Raised
        producer == IF "producer" \in DOMAIN dual_record
                    THEN get_agent_record("producer", dual_record, job)
                    ELSE Raised
        first == IF "producer" \in DOMAIN dual_record
                 THEN <<producer.record>> ELSE <<>>
    IN  IF "client" \in DOMAIN dual_record /\ client.raised THEN Raised
        ELSE IF "producer" \in DOMAIN dual_record /\ producer.raised THEN Raised
        ELSE IF "client" \in DOMAIN dual_record
             THEN [raised |-> FALSE, records |-> Append(first, client.record)]
        ELSE [raised |-> FALSE, records |-> first]

get_records(dual_record, job) ==
    LET client == IF "client" \in DOMAIN dual_record
                  THEN get_agent_record("client", dual_record, job)
                  ELSE Raised
        producer == IF "producer" \in DOMAIN dual_record
                    THEN get_agent_record("producer", dual_record, job)
                    ELSE Raised
        first == IF "client" \in DOMAIN dual_record
                 THEN <<client.record>> ELSE <<>>
    IN  IF "client" \in DOMAIN dual_record /\ client.raised THEN Raised
        ELSE IF "producer" \in DOMAIN dual_record /\ producer.raised THEN Raised
        ELSE IF "producer" \in DOMAIN dual_record
             THEN [raised |-> FALSE, records |-> Append(first, producer.record)]
        ELSE [raised |-> FALSE, records |-> first]

(***************************************************************************)
(* The transformers come from opmon_anonymizer.transformers, which is not  *)
(* among the sources: a transformer maps a record to a record and may      *)
(* raise.  reduce_ts_precision rounds the integer field "ts" down to a     *)
(* multiple of TsPrecision and raises when the field is missing or is not  *)
(* an integer.                                                             *)
(***************************************************************************)
TsPrecision == 100

transformer(name, record) ==
    IF name = "reduce_ts_precision"
    THEN IF "ts" \notin DOMAIN record \/ record["ts"].tag # "int" THEN Raised
         ELSE [raised |-> FALSE,
               record |-> SetItem(record, "ts",
                   IntVal(record["ts"].n - (record["ts"].n % TsPrecision)))]
    ELSE IF name \in {"hash_fieldA", "truncate_fieldA"}
    THEN IF "fieldA" \notin DOMAIN record \/ record["fieldA"].tag # "str"
         THEN Raised
         ELSE LET s == record["fieldA"].s
                  hashed == "h" \o s
                  truncated == IF Len(s) <= 1 THEN s ELSE SubSeq(s, 1, 1)
              IN  [raised |-> FALSE,
                   record |-> SetItem(record, "fieldA",
                       StrVal(IF name = "hash_fieldA" THEN hashed
                              ELSE truncated))]
    ELSE Raised

TransformerNames == {"reduce_ts_precision", "hash_fieldA", "truncate_fieldA"}

\* A variant that goes through the transformers from the last to the first.
RECURSIVE apply_transformers_reversed(_, _, _)
apply_transformers_reversed(record, transformers, t) ==
    IF t > Len(transformers) THEN [raised |-> FALSE, record |-> record]
    ELSE LET r == transformer(transformers[Len(transformers) + 1 - t], record)
         IN  IF r.raised THEN Raised
             ELSE apply_transformers_reversed(r.record, transformers, t + 1)

\* for transformer in self._transformers: record = transformer(record)
RECURSIVE apply_transformers(_, _, _)
apply_transformers(record, transformers, t) ==
    IF t > Len(transformers) THEN [raised |-> FALSE, record |-> record]
    ELSE LET r == transformer(transformers[t], record)
         IN  IF r.raised THEN Raised
             ELSE apply_transformers(r.record, transformers, t + 1)

(***************************************************************************)
(* AnonymizationJob.run.  records_loop is the inner loop over the single   *)
(* records of one dual record, duals_loop the outer loop; run hands        *)
(* processed_records to the writer in one call after the loops.  Any       *)
(* exception is logged and re-raised.  The writer (not among the sources)  *)
(* takes the whole list or raises and stores nothing: sink_ok says which.  *)
(* events lists the stages in the order the code goes through them.        *)
(***************************************************************************)
Event(stage, dual, rec) == [stage |-> stage, dual |-> dual, rec |-> rec]

\* A variant that puts each processed record at the head of the list.
RECURSIVE records_loop_prepending(_, _, _, _, _)
records_loop_prepending(records, k, i, job, acc) ==
    IF k > Len(records) THEN acc
    ELSE IF should_be_hidden(records[k], job.hiding_rules)
    THEN records_loop_prepending(records, k + 1, i, job,
             [acc EXCEPT !.events = Append(@, Event("hidden", i, k))])
    ELSE LET substituted == substitute(records[k], job.substitution_rules).record
             transformed == apply_transformers(substituted, job.transformers, 1)
             stages == acc.events \o <<Event("kept", i, k),
                                       Event("substitute", i, k),
                                       Event("transform", i, k)>>
         IN  IF transformed.raised
             THEN [acc EXCEPT !.raised = TRUE, !.events = stages]
             ELSE records_loop_prepending(records, k + 1, i, job,
                      [acc EXCEPT
                          !.processed = <<transformed.record>> \o @,
                          !.events = Append(stages, Event("collect", i, k))])

\* A variant that substitutes before it asks whether the record is hidden.
RECURSIVE records_loop_substituting_first(_, _, _, _, _)
records_loop_substituting_first(records, k, i, job, acc) ==
    IF k > Len(records) THEN acc
    ELSE LET substituted == substitute(records[k], job.substitution_rules).record
             transformed == apply_transformers(substituted, job.transformers, 1)
             stages == acc.events \o <<Event("substitute", i, k),
                                       Event("kept", i, k),
                                       Event("transform", i, k)>>
         IN  IF should_be_hidden(substituted, job.hiding_rules)
             THEN records_loop_substituting_first(records, k + 1, i, job,
                      [acc EXCEPT !.events =
                          @ \o <<Event("substitute", i, k), Event("hidden", i, k)>>])
             ELSE IF transformed.raised
             THEN [acc EXCEPT !.raised = TRUE, !.events = stages]
             ELSE records_loop_substituting_first(records, k + 1, i, job,
                      [acc EXCEPT
                          !.processed = Append(@, transformed.record),
                          !.events = Append(stages, Event("collect", i, k))])

RECURSIVE records_loop(_, _, _, _, _)
records_loop(records, k, i, job, acc) ==
    IF k > Len(records) THEN acc
    ELSE IF should_be_hidden(records[k], job.hiding_rules)
    THEN records_loop(records, k + 1, i, job,
             [acc EXCEPT !.events = Append(@, Event("hidden", i, k))])
    ELSE LET substituted == substitute(records[k], job.substitution_rules).record
             transformed == apply_transformers(substituted, job.transformers, 1)
             stages == acc.events \o <<Event("kept", i, k),
                                       Event("substitute", i, k),
                                       Event("transform", i, k)>>
         IN  IF transformed.raised
             THEN [acc EXCEPT !.raised = TRUE, !.events = stages]
             ELSE records_loop(records, k + 1, i, job,
                      [acc EXCEPT
                          !.processed = Append(@, transformed.record),
                          !.events = Append(stages, Event("collect", i, k))])

RECURSIVE duals_loop(_, _, _, _)
duals_loop(dual_records, i, job, acc) ==
    IF i > Len(dual_records) THEN acc
    ELSE LET split == get_records(dual_records[i], job)
             events == Append(acc.events, Event("split", i, 0))
         IN  IF split.raised
             THEN [acc EXCEPT !.raised = TRUE, !.events = events]
             ELSE LET after == records_loop(split.records, 1, i, job,
                                   [acc EXCEPT !.events = events])
                  IN  IF after.raised THEN after
                      ELSE duals_loop(dual_records, i + 1, job, after)

\* A variant that hands what was collected to the writer even when a
\* record raised (a write placed in a finally clause).
run_writing_on_error(dual_records, job, sink_ok) ==
    LET done == duals_loop(dual_records, 1, job,
                    [raised |-> FALSE, processed |-> <<>>, events |-> <<>>])
    IN  [raised |-> done.raised \/ ~sink_ok,
         sink_calls |-> <<done.processed>>,
         written |-> IF sink_ok THEN <<done.processed>> ELSE <<>>,
         events |-> Append(done.events, Event("write", 0, 0))]

\* A variant that does not call the writer when nothing is left to write.
run_skipping_empty_write(dual_records, job, sink_ok) ==
    LET done == duals_loop(dual_records, 1, job,
                    [raised |-> FALSE, processed |-> <<>>, events |-> <<>>])
    IN  IF done.raised \/ done.processed = <<>>
        THEN [raised |-> done.raised, sink_calls |-> <<>>, written |-> <<>>,
              events |-> done.events]
        ELSE [raised |-> ~sink_ok,
              sink_calls |-> <<done.processed>>,
              written |-> IF sink_ok THEN <<done.processed>> ELSE <<>>,
              events |-> Append(done.events, Event("write", 0, 0))]

\* A variant whose split assigns no mask: the rules see the source values.
run_without_masks(dual_records, job, sink_ok) ==
    LET done == duals_loop(dual_records, 1,
                    [job EXCEPT !.field_value_masks =
                                    [client |-> {}, producer |-> {}]],
                    [raised |-> FALSE, processed |-> <<>>, events |-> <<>>])
    IN  IF done.raised
        THEN [raised |-> TRUE, sink_calls |-> <<>>, written |-> <<>>,
              events |-> done.events]
        ELSE [raised |-> ~sink_ok,
              sink_calls |-> <<done.processed>>,
              written |-> IF sink_ok THEN <<done.processed>> ELSE <<>>,
              events |-> Append(done.events, Event("write", 0, 0))]

run(dual_records, job, sink_ok) ==
    LET done == duals_loop(dual_records, 1, job,
                    [raised |-> FALSE, processed |-> <<>>, events |-> <<>>])
    IN  IF done.raised
        THEN [raised |-> TRUE, sink_calls |-> <<>>, written |-> <<>>,
              events |-> done.events]
        ELSE [raised |-> ~sink_ok,
              sink_calls |-> <<done.processed>>,
              written |-> IF sink_ok THEN <<done.processed>> ELSE <<>>,
              events |-> Append(done.events, Event("write", 0, 0))]

(***************************************************************************)
(* Anonymizer._get_field_translations.  A line of the translations file    *)
(* is given as the pieces line.strip().split(' -> ') yields: original is   *)
(* the first piece as original_name.split('.') yields it (a blank line has *)
(* the one segment ""), rest the pieces after it.  tables is the set of    *)
(* keys of translations that hold a mapping, the others hold a name.       *)
(***************************************************************************)
TranslationLine(original, rest) == [original |-> original, rest |-> rest]

\* A variant that takes the first new name of a line with several ' -> '.
RECURSIVE field_translations_lenient_from(_, _, _, _)
field_translations_lenient_from(lines, n, translations, tables) ==
    IF n > Len(lines) THEN [raised |-> FALSE, translations |-> translations]
    ELSE LET original_name_parts == lines[n].original
             new_name == IF lines[n].rest = <<>> THEN "" ELSE lines[n].rest[1]
         IN  IF Len(original_name_parts) = 1
             THEN field_translations_lenient_from(lines, n + 1,
                      SetItem(translations, original_name_parts[1], new_name),
                      tables \ {original_name_parts[1]})
             ELSE IF Len(original_name_parts) = 2
             THEN IF original_name_parts[1] \notin tables THEN Raised
                  ELSE field_translations_lenient_from(lines, n + 1,
                           SetItem(translations, original_name_parts[1],
                               SetItem(translations[original_name_parts[1]],
                                       original_name_parts[2], new_name)),
                           tables)
             ELSE field_translations_lenient_from(lines, n + 1, translations, tables)

RECURSIVE field_translations_from(_, _, _, _)
field_translations_from(lines, n, translations, tables) ==
    IF n > Len(lines) THEN [raised |-> FALSE, translations |-> translations]
    ELSE LET original_name_parts == lines[n].original
             new_name == lines[n].rest[1]
         IN  \* original_name, new_name = ...: exactly two pieces, or ValueError
             IF Len(lines[n].rest) # 1 THEN Raised
             ELSE IF Len(original_name_parts) = 1
             THEN field_translations_from(lines, n + 1,
                      SetItem(translations, original_name_parts[1], new_name),
                      tables \ {original_name_parts[1]})
             ELSE IF Len(original_name_parts) = 2
             \* KeyError for an unknown first part, TypeError when it holds a name
             THEN IF original_name_parts[1] \notin tables THEN Raised
                  ELSE field_translations_from(lines, n + 1,
                           SetItem(translations, original_name_parts[1],
                               SetItem(translations[original_name_parts[1]],
                                       original_name_parts[2], new_name)),
                           tables)
             \* more than two parts: neither branch, the line is passed over
             ELSE field_translations_from(lines, n + 1, translations, tables)

get_field_translations(lines) ==
    field_translations_from(lines, 1, [client |-> <<>>, producer |-> <<>>],
                            {"client", "producer"})

(***************************************************************************)
(* Anonymizer.__init__ and the parsers it calls.  A regex of the settings  *)
(* is given with what re.compile makes of it: a pattern, or re.error when  *)
(* the text is not a valid regex.  Each parser logs and re-raises.         *)
(***************************************************************************)
RawRegex(lit, dollar, valid) == [lit |-> lit, dollar |-> dollar, valid |-> valid]
Constraint(feature, regex) == [feature |-> feature, regex |-> regex]

\* [(constraint['feature'], re.compile(constraint['regex'])) for constraint in ...]
compile_constraints(constraints) ==
    IF \E n \in DOMAIN constraints : ~constraints[n].regex.valid THEN Raised
    ELSE [raised |-> FALSE,
          conditions |->
              [n \in DOMAIN constraints |->
                  Condition(constraints[n].feature,
                            Regex(constraints[n].regex.lit,
                                  constraints[n].regex.dollar))]]

get_hiding_rules(hiding_rules) ==
    IF \E r \in DOMAIN hiding_rules : compile_constraints(hiding_rules[r]).raised
    THEN Raised
    ELSE [raised |-> FALSE,
          rules |-> [r \in DOMAIN hiding_rules |->
                        compile_constraints(hiding_rules[r]).conditions]]

get_substitution_rules(substitution_rules) ==
    IF \E r \in DOMAIN substitution_rules :
           compile_constraints(substitution_rules[r].conditions).raised
    THEN Raised
    ELSE [raised |-> FALSE,
          rules |-> [r \in DOMAIN substitution_rules |->
                        [conditions |->
                             compile_constraints(
                                 substitution_rules[r].conditions).conditions,
                         substitutes |-> substitution_rules[r].substitutes]]]

\* transformers.get_enabled_transformers: the transformers of the given
\* names; an unknown name is an error.
get_enabled_transformers(names) ==
    IF \E n \in DOMAIN names : names[n] \notin TransformerNames THEN Raised
    ELSE [raised |-> FALSE, transformers |-> names]

get_transformers(names) == get_enabled_transformers(names)

\* A variant that masks a field for the agent its metadata names.
get_field_value_masks_for_declared_agent(fields) ==
    [client |-> {f \in DOMAIN fields :
                    fields[f].has_agent /\ fields[f].agent # "producer"},
     producer |-> {f \in DOMAIN fields :
                      fields[f].has_agent /\ fields[f].agent = "producer"}]

\* fields maps a field name to its metadata: whether it has an 'agent'
\* entry and the entry's value.
get_field_value_masks(fields) ==
    [client |-> {f \in DOMAIN fields :
                    fields[f].has_agent /\ fields[f].agent = "producer"},
     producer |-> {f \in DOMAIN fields :
                      fields[f].has_agent /\ fields[f].agent # "producer"}]

NoJob == [given |-> FALSE]

\* A variant that parses the settings only when it has to build the job.
Anonymizer_init_trusting_given_job(settings) ==
    LET hiding_rules == get_hiding_rules(settings.hiding_rules)
        substitution_rules == get_substitution_rules(settings.substitution_rules)
        transformers == get_transformers(settings.transformers)
        field_translations == get_field_translations(settings.lines)
        field_value_masks == get_field_value_masks(settings.fields)
    IN  IF settings.anonymization_job # NoJob
        THEN [raised |-> FALSE, anonymization_job |-> settings.anonymization_job]
        ELSE IF hiding_rules.raised
        THEN [raised |-> TRUE, logged |-> "hiding_rules_parsing_failed"]
        ELSE IF substitution_rules.raised
        THEN [raised |-> TRUE, logged |-> "substitution_rules_parsing_failed"]
        ELSE IF transformers.raised
        THEN [raised |-> TRUE, logged |-> "transformers_parsing_failed"]
        ELSE IF field_translations.raised
        THEN [raised |-> TRUE, logged |-> "field_translations_parsing_failed"]
        ELSE [raised |-> FALSE,
              anonymization_job |->
                  [hiding_rules |-> hiding_rules.rules,
                   substitution_rules |-> substitution_rules.rules,
                   transformers |-> transformers.transformers,
                   field_translations |-> field_translations.translations,
                   field_value_masks |-> field_value_masks]]

\* Lines 31-42: the parsers run in this order, whether or not a job is
\* given; the given job, when there is one, is then used as it is.
Anonymizer_init(settings) ==
    LET hiding_rules == get_hiding_rules(settings.hiding_rules)
        substitution_rules == get_substitution_rules(settings.substitution_rules)
        transformers == get_transformers(settings.transformers)
        field_translations == get_field_translations(settings.lines)
        field_value_masks == get_field_value_masks(settings.fields)
    IN  IF hiding_rules.raised
        THEN [raised |-> TRUE, logged |-> "hiding_rules_parsing_failed"]
        ELSE IF substitution_rules.raised
        THEN [raised |-> TRUE, logged |-> "substitution_rules_parsing_failed"]
        ELSE IF transformers.raised
        THEN [raised |-> TRUE, logged |-> "transformers_parsing_failed"]
        ELSE IF field_translations.raised
        THEN [raised |-> TRUE, logged |-> "field_translations_parsing_failed"]
        ELSE [raised |-> FALSE,
              anonymization_job |->
                  IF settings.anonymization_job # NoJob
                  THEN settings.anonymization_job
                  ELSE [hiding_rules |-> hiding_rules.rules,
                        substitution_rules |-> substitution_rules.rules,
                        transformers |-> transformers.transformers,
                        field_translations |-> field_translations.translations,
                        field_value_masks |-> field_value_masks]]

(***************************************************************************)
(* HarvestForm.clean_order (opendata API).  The order field is a text;     *)
(* json.loads is given by its value on the texts of the model: a JSON      *)
(* value, or JSONDecodeError for a text that is not JSON.  A value is an   *)
(* object (a mapping of keys to values), a string, a number, null or an    *)
(* array.  An exception is named by its class.                             *)
(***************************************************************************)
JsonString(s) == [tag |-> "string", s |-> s]
JsonNumber(n) == [tag |-> "number", n |-> n]
JsonNull == [tag |-> "null"]
JsonArray(items) == [tag |-> "array", items |-> items]
JsonObject(items) == [tag |-> "object", items |-> items]

JSONDecodeError == [raised |-> TRUE]
Parsed(value) == [raised |-> FALSE, value |-> value]

json_loads(text) ==
    CASE text = "{\"column\": \"a\", \"order\": \"asc\"}"
             -> Parsed(JsonObject([column |-> JsonString("a"),
                                   order |-> JsonString("asc")]))
      [] text = "{\"order\": \"Desc\"}"
             -> Parsed(JsonObject([order |-> JsonString("Desc")]))
      [] text = "{\"order\": \"DESC\", \"column\": 1}"
             -> Parsed(JsonObject([order |-> JsonString("DESC"),
                                   column |-> JsonNumber(1)]))
      [] text = "{\"order\": \"up\"}"
             -> Parsed(JsonObject([order |-> JsonString("up")]))
      [] text = "{\"column\": \"a\"}"
             -> Parsed(JsonObject([column |-> JsonString("a")]))
      [] text = "{}" -> Parsed(JsonObject(<<>>))
      [] text = "{\"x\": 1}" -> Parsed(JsonObject([x |-> JsonNumber(1)]))
      [] text = "{\"x\": 1, \"order\": \"ASC\"}"
             -> Parsed(JsonObject([x |-> JsonNumber(1),
                                   order |-> JsonString("ASC")]))
      [] text = "{\"order\": 1}" -> Parsed(JsonObject([order |-> JsonNumber(1)]))
      [] text = "{\"order\": null}" -> Parsed(JsonObject([order |-> JsonNull]))
      [] text = "[1]" -> Parsed(JsonArray(<<JsonNumber(1)>>))
      [] text = "1" -> Parsed(JsonNumber(1))
      [] text = "null" -> Parsed(JsonNull)
      [] text = "\"ASC\"" -> Parsed(JsonString("ASC"))
      [] OTHER -> JSONDecodeError

\* str.upper on the texts of the model.
upper(s) ==
    CASE s = "asc" -> "ASC"
      [] s = "Desc" -> "DESC"
      [] s = "up" -> "UP"
      [] s = "a" -> "A"
      [] OTHER -> s

ALLOWED_ORDER_KEYS == {"column", "order"}
ALLOWED_ORDER_ORDER_VALUES == {"ASC", "DESC"}

ValidationError(message) ==
    [outcome |-> "ValidationError", message |-> message]
OtherError(class) == [outcome |-> class]
ReturnedOrder(order) == [outcome |-> "returned", order |-> order]

\* Lines 57-68.  The empty text is returned as it is.  order.items() of a
\* value that is no object, and .upper() of a value that is no string,
\* raise AttributeError; order['order'] of an object without that key
\* raises KeyError.
clean_order(order) ==
    IF order = "" THEN ReturnedOrder(JsonString(""))
    ELSE LET parsed == json_loads(order)
         IN  IF parsed.raised
             THEN ValidationError("Ensure \"order\" is valid json")
             ELSE IF parsed.value.tag # "object"
             THEN OtherError("AttributeError")
             ELSE IF \E key \in DOMAIN parsed.value.items :
                         key \notin ALLOWED_ORDER_KEYS
             THEN ValidationError(
                      "Ensure only \"column\" and \"order\" are set as keys")
             ELSE IF "order" \notin DOMAIN parsed.value.items
             THEN OtherError("KeyError")
             ELSE IF parsed.value.items.order.tag # "string"
             THEN OtherError("AttributeError")
             ELSE IF upper(parsed.value.items.order.s)
                         \notin ALLOWED_ORDER_ORDER_VALUES
             THEN ValidationError(
                      "Ensure only \"ASC\" or \"DESC\" is set for order")
             ELSE ReturnedOrder(parsed.value)

(***************************************************************************)
(* Bounds of the model.                                                    *)
(***************************************************************************)
MaxSource == 3      \* longest source, in dual records
MaxBuffer == 3      \* largest postgres buffer-size setting
MaxLimit == 2       \* largest log_limit
MaxRuns == 2        \* calls of anonymize in one behaviour (a run and a retry)

(***************************************************************************)
(* Compiled configurations and dual records.                               *)
(***************************************************************************)
FieldTranslations ==
    [client |-> [a |-> "fieldA", b |-> "fieldB"],
     producer |-> [a |-> "fieldA", b |-> "fieldB"],
     ts |-> "ts"]

NoMasks == [client |-> {}, producer |-> {}]

HideFieldAOne == <<Condition("fieldA", Regex("1", TRUE))>>

PlainJob ==
    [hiding_rules |-> <<>>, substitution_rules |-> <<>>, transformers |-> <<>>,
     field_translations |-> FieldTranslations, field_value_masks |-> NoMasks]

RulesJob ==
    [hiding_rules |-> <<HideFieldAOne>>,
     substitution_rules |->
         <<[conditions |-> <<Condition("fieldA", Regex("2", TRUE))>>,
            substitutes |-> <<Substitute("fieldB", StrVal("x"))>>]>>,
     transformers |-> <<"reduce_ts_precision">>,
     field_translations |-> FieldTranslations,
     field_value_masks |-> [client |-> {"fieldB"}, producer |-> {}]]

\* A job whose substitution rewrites the fields the hiding rule and the
\* transformers read.
OrderJob(transformers) ==
    [hiding_rules |-> <<HideFieldAOne>>,
     substitution_rules |->
         <<[conditions |-> <<Condition("fieldA", Regex("2", TRUE))>>,
            substitutes |-> <<Substitute("fieldA", StrVal("1")),
                              Substitute("ts", IntVal(250))>>]>>,
     transformers |-> transformers,
     field_translations |-> FieldTranslations,
     field_value_masks |-> NoMasks]

Jobs == {PlainJob, RulesJob}

DualBoth == [client |-> [a |-> StrVal("1")], producer |-> [a |-> StrVal("2")],
             ts |-> IntVal(100)]
DualHidden == [producer |-> [a |-> StrVal("1")], ts |-> IntVal(150)]
DualUntranslated == [client |-> [a |-> StrVal("2")],
                     producer |-> [zz |-> StrVal("2")], ts |-> IntVal(100)]

DualRecords == {DualBoth, DualHidden, DualUntranslated}

SeqsUpTo(S, n) == UNION {[1..k -> S] : k \in 0..n}

\* Inputs of the single calls of the job's methods.
MaxConditions == 2  \* longest condition list
MaxRules == 2       \* longest list of hiding or substitution rules
MaxBatch == 2       \* longest batch given to a single call of run
MaxTransformers == 2 \* longest list of transformers
MaxLines == 2       \* longest translations file, in lines

HidingJob == [PlainJob EXCEPT !.hiding_rules = <<HideFieldAOne>>]

DualNoTs == [client |-> [a |-> StrVal("2")], producer |-> [b |-> StrVal("1")]]
DualNoAgent == [ts |-> IntVal(100)]

DualFull == [client |-> [a |-> StrVal("1"), b |-> StrVal("2")],
             producer |-> [b |-> StrVal("1")], ts |-> IntVal(100)]
DualSharedUntranslated == [client |-> [a |-> StrVal("2")], xx |-> IntVal(100)]
DualOnlyUntranslated == [xx |-> IntVal(100)]

SplitDuals ==
    DualRecords \cup {DualNoTs, DualNoAgent, DualFull, DualSharedUntranslated,
                      DualOnlyUntranslated}

\* Jobs whose rules test a field that is masked for the client.
MaskedHidingJob ==
    [PlainJob EXCEPT
        !.hiding_rules = <<HideFieldAOne>>,
        !.substitution_rules =
            <<[conditions |-> <<Condition("fieldA", Regex("1", TRUE))>>,
               substitutes |-> <<Substitute("fieldB", StrVal("x"))>>]>>,
        !.field_value_masks = [client |-> {"fieldA"}, producer |-> {}]]
MaskedNoneJob ==
    [PlainJob EXCEPT
        !.hiding_rules = <<<<Condition("fieldB", Regex("None", TRUE)),
                             Condition("fieldA", Regex("2", TRUE))>>>>,
        !.substitution_rules =
            <<[conditions |-> <<Condition("fieldA", Regex("None", TRUE))>>,
               substitutes |-> <<Substitute("fieldA", StrVal("x"))>>]>>,
        !.field_value_masks = [client |-> {"fieldA"}, producer |-> {"fieldB"}]]

\* Jobs with a rule that has no conditions.
HideAllJob == [PlainJob EXCEPT !.hiding_rules = <<HideFieldAOne, <<>>>>]
SubstituteAllJob ==
    [PlainJob EXCEPT
        !.hiding_rules = <<HideFieldAOne>>,
        !.substitution_rules =
            <<[conditions |-> <<>>,
               substitutes |-> <<Substitute("fieldB", StrVal("x"))>>]>>]

OrderJobs == {OrderJob(t) : t \in SeqsUpTo(TransformerNames, MaxTransformers)}
RunJobs ==
    Jobs \cup {HidingJob, MaskedHidingJob, MaskedNoneJob, HideAllJob,
               SubstituteAllJob}
         \cup OrderJobs

RunDuals ==
    DualRecords \cup {DualNoTs, DualNoAgent, DualSharedUntranslated,
                      DualOnlyUntranslated}

\* Jobs that differ in the two agents' mask sets only.
MaskSets == SUBSET {"fieldA", "fieldB", "ts"}
SplitJobs ==
    {[PlainJob EXCEPT !.field_value_masks = [client |-> c, producer |-> p]] :
        c \in MaskSets, p \in MaskSets}

\* A translation in which the agents' field b and the shared field ts have
\* the same output name.
CollidingTranslations ==
    [client |-> [a |-> "fieldA", b |-> "ts"],
     producer |-> [a |-> "fieldA", b |-> "ts"],
     ts |-> "ts"]
CollidingJobs ==
    {[PlainJob EXCEPT !.field_translations = CollidingTranslations,
                      !.field_value_masks = [client |-> c, producer |-> p]] :
        c \in MaskSets, p \in MaskSets}

Fields == {"fieldA", "fieldB"}
FieldValues == {StrVal("1"), StrVal("2"), IntVal(100), None}
Records == UNION {[D -> FieldValues] : D \in SUBSET Fields}

Patterns == {Regex("1", TRUE), Regex("2", TRUE), Regex("1", FALSE),
             Regex("None", TRUE)}
Conditions == {Condition(f, p) : f \in Fields, p \in Patterns}
ConditionLists == SeqsUpTo(Conditions, MaxConditions)

HidingGroups ==
    {<<>>,
     HideFieldAOne,
     <<Condition("fieldB", Regex("None", TRUE))>>,
     <<Condition("fieldA", Regex("1", FALSE)), Condition("fieldB", Regex("2", TRUE))>>,
     <<Condition("fieldB", Regex("2", TRUE)), Condition("fieldA", Regex("2", TRUE))>>}

SubstitutionRules ==
    {[conditions |-> <<>>,
      substitutes |-> <<Substitute("fieldA", StrVal("1"))>>],
     [conditions |-> <<Condition("fieldA", Regex("1", TRUE))>>,
      substitutes |-> <<Substitute("fieldB", StrVal("2"))>>],
     [conditions |-> <<Condition("fieldA", Regex("1", TRUE))>>,
      substitutes |-> <<Substitute("fieldA", StrVal("2")),
                        Substitute("fieldB", None)>>],
     [conditions |-> <<Condition("fieldB", Regex("2", TRUE))>>,
      substitutes |-> <<Substitute("fieldB", StrVal("1")),
                        Substitute("fieldB", IntVal(100))>>],
     [conditions |-> <<Condition("fieldA", Regex("2", TRUE)),
                       Condition("fieldB", Regex("1", FALSE))>>,
      substitutes |-> <<Substitute("fieldA", None)>>]}

Originals ==
    {<<"">>, <<"ts">>, <<"client">>, <<"client", "a">>, <<"producer", "a">>,
     <<"xx", "a">>, <<"client", "a", "b">>}
\* strip() leaves nothing before a leading ' -> ': a line whose first piece
\* is empty has no other piece.
TranslationLines ==
    {l \in {TranslationLine(o, r) :
               o \in Originals, r \in {<<>>, <<"fieldA">>, <<"fieldA", "ts">>}} :
        l.original = <<"">> => l.rest = <<>>}

\* Settings for the construction of an Anonymizer.
GoodLines ==
    <<TranslationLine(<<"client", "a">>, <<"fieldA">>),
      TranslationLine(<<"client", "b">>, <<"fieldB">>),
      TranslationLine(<<"producer", "a">>, <<"fieldA">>),
      TranslationLine(<<"producer", "b">>, <<"fieldB">>),
      TranslationLine(<<"ts">>, <<"ts">>)>>
BlankLine == TranslationLine(<<"">>, <<>>)
TwoArrowsLine == TranslationLine(<<"ts">>, <<"ts", "ts">>)
TranslationFiles ==
    {GoodLines, <<>>, Append(GoodLines, BlankLine), <<BlankLine>>,
     Append(GoodLines, TwoArrowsLine),
     <<TranslationLine(<<"ts">>, <<>>)>>}

GoodConstraints == <<Constraint("fieldA", RawRegex("1", TRUE, TRUE))>>
BadConstraints ==
    <<Constraint("fieldA", RawRegex("2", TRUE, TRUE)),
      Constraint("fieldB", RawRegex("(", FALSE, FALSE))>>
HidingSettings == {<<>>, <<GoodConstraints>>, <<GoodConstraints, BadConstraints>>}
SubstitutionSettings ==
    {<<>>,
     <<[conditions |-> GoodConstraints,
        substitutes |-> <<Substitute("fieldB", StrVal("x"))>>]>>,
     <<[conditions |-> BadConstraints,
        substitutes |-> <<Substitute("fieldB", StrVal("x"))>>]>>}
TransformerSettings ==
    {<<>>, <<"reduce_ts_precision">>, <<"reduce_ts_precision", "no_such_transformer">>}
FieldData ==
    [fieldA |-> [has_agent |-> FALSE, agent |-> ""],
     fieldB |-> [has_agent |-> TRUE, agent |-> "producer"]]
Settings ==
    [lines : TranslationFiles, hiding_rules : HidingSettings,
     substitution_rules : SubstitutionSettings,
     transformers : TransformerSettings, fields : {FieldData},
     anonymization_job : {NoJob, PlainJob}]

\* Field-metadata files: every field of some of the three names with no
\* 'agent' entry or with one of the values.
FieldMetadata ==
    {[has_agent |-> FALSE, agent |-> ""],
     [has_agent |-> TRUE, agent |-> "client"],
     [has_agent |-> TRUE, agent |-> "producer"],
     [has_agent |-> TRUE, agent |-> "both"]}
FieldDataFiles ==
    UNION {[D -> FieldMetadata] : D \in SUBSET {"fieldA", "fieldB", "ts"}}

\* Values of the order field.
OrderTexts ==
    {"", "x", "{\"column\": \"a\", \"order\": \"asc\"}", "{\"order\": \"Desc\"}",
     "{\"order\": \"DESC\", \"column\": 1}", "{\"order\": \"up\"}",
     "{\"column\": \"a\"}", "{}", "{\"x\": 1}", "{\"x\": 1, \"order\": \"ASC\"}",
     "{\"order\": 1}", "{\"order\": null}", "[1]", "1", "null", "\"ASC\"",
     "{\"order\": \"ASC\""}

Calls ==
    {[op |-> "matches", record |-> r, conditions |-> c] :
        r \in Records, c \in ConditionLists}
    \cup
    {[op |-> "hidden", record |-> r, hiding_rules |-> h] :
        r \in Records, h \in SeqsUpTo(HidingGroups, MaxRules)}
    \cup
    {[op |-> "substitute", record |-> r, substitution_rules |-> u] :
        r \in Records, u \in SeqsUpTo(SubstitutionRules, MaxRules)}
    \cup
    {[op |-> "run", dual_records |-> d, job |-> j, sink_ok |-> ok] :
        d \in SeqsUpTo(RunDuals, MaxBatch) \ {<<>>},
        j \in RunJobs, ok \in BOOLEAN}
    \cup
    {c \in [op : {"get_agent_record"}, agent : AgentKeys,
             dual_record : SplitDuals, job : SplitJobs \cup CollidingJobs] :
        c.agent \in DOMAIN c.dual_record}
    \cup
    {[op |-> "get_records", dual_record |-> d, job |-> j] :
        d \in SplitDuals, j \in SplitJobs}
    \cup
    {[op |-> "get_field_translations", lines |-> l] :
        l \in SeqsUpTo(TranslationLines, MaxLines)}
    \cup
    {[op |-> "Anonymizer_init", settings |-> s] : s \in Settings}
    \cup
    {[op |-> "get_field_value_masks", fields |-> f] : f \in FieldDataFiles}
    \cup
    {[op |-> "clean_order", order |-> o] : o \in OrderTexts}

(***************************************************************************)
(* The reader (opmon_anonymizer.iio, not among the sources) as section 6   *)
(* of the specification describes it: get_records yields the records that  *)
(* follow the cursor, one at a time, and last_processed_timestamp is the   *)
(* cursor after the records consumed so far.  timestamp_of(i) is the       *)
(* cursor once i records of the source are consumed.                       *)
(***************************************************************************)
FirstTimestamp == 1000

timestamp_of(position) == FirstTimestamp + position
position_of(timestamp) == timestamp - FirstTimestamp

NoTimestamp == -1   \* batch_start_mongodb_timestamp = None
NoLimit == -1       \* log_limit=None
NoCount == -1       \* anonymize has not returned a count

\* The text "{0}" or "{1}" that reaches the log when str.format is not
\* applied to the part of the message holding it.
Unformatted == -2

VARIABLES
    source,                          \* the dual records the reader can yield
    writer_buffer_size,              \* settings['postgres']['buffer-size']
    job,                             \* the AnonymizationJob's compiled rules
    log_limit,                       \* anonymize's argument
    last_processed_timestamp,        \* the reader's cursor (the checkpoint)
    gen_pos,                         \* records the get_records generator has yielded
    record_buffer,
    buffer_pos,                      \* source positions of record_buffer's records
    batch_start_mongodb_timestamp,
    batch_end_mongodb_timestamp,
    last_successful_batch_timestamp,
    processed_count,
    pc,                              \* idle, loop, after_loop, returned, raised
    returned,                        \* the count anonymize returned
    runs,                            \* calls of anonymize so far
    handed,                          \* the batches handed to AnonymizationJob.run
    sink,                            \* the lists the writer stored
    logs,                            \* the driver's log_info / log_error calls
    call,                            \* a single call of one of the job's methods
    result                           \* what that call gave

driver_vars ==
    <<source, writer_buffer_size, job, log_limit, last_processed_timestamp,
      gen_pos, record_buffer, buffer_pos, batch_start_mongodb_timestamp,
      batch_end_mongodb_timestamp, last_successful_batch_timestamp,
      processed_count, pc, returned, runs, handed, sink, logs>>

vars == <<driver_vars, call, result>>

NoCall == [op |-> "none"]
NoResult == [op |-> "none"]

(***************************************************************************)
(* The state once the Anonymizer is constructed and before anonymize is    *)
(* called: the reader's cursor is at the start of the source.              *)
(***************************************************************************)
Init ==
    /\ source \in SeqsUpTo(DualRecords, MaxSource)
    /\ writer_buffer_size \in 0..MaxBuffer
    /\ job \in Jobs
    /\ log_limit = NoLimit
    /\ last_processed_timestamp = timestamp_of(0)
    /\ gen_pos = 0
    /\ record_buffer = <<>>
    /\ buffer_pos = <<>>
    /\ batch_start_mongodb_timestamp = NoTimestamp
    /\ batch_end_mongodb_timestamp = NoTimestamp
    /\ last_successful_batch_timestamp = NoTimestamp
    /\ processed_count = 0
    /\ pc = "idle"
    /\ returned = NoCount
    /\ runs = 0
    /\ handed = <<>>
    /\ sink = <<>>
    /\ logs = <<>>
    /\ call = NoCall
    /\ result = NoResult

Config == <<source, writer_buffer_size, job>>
Ghost == <<call, result>>

(***************************************************************************)
(* anonymize, lines 44-53: the locals are set and the reader's generator   *)
(* starts after the cursor.  A retry is another call of anonymize by the   *)
(* scheduler, on a reader that starts from the cursor the last run left.   *)
(***************************************************************************)
Anonymize ==
    /\ pc \in {"idle", "returned", "raised"}
    /\ runs < MaxRuns
    /\ \E limit \in {NoLimit} \cup 0..MaxLimit : log_limit' = limit
    /\ runs' = runs + 1
    /\ record_buffer' = <<>>
    /\ buffer_pos' = <<>>
    /\ batch_start_mongodb_timestamp' = NoTimestamp
    /\ batch_end_mongodb_timestamp' = NoTimestamp
    /\ last_successful_batch_timestamp' = last_processed_timestamp
    /\ processed_count' = 0
    /\ gen_pos' = position_of(last_processed_timestamp)
    /\ returned' = NoCount
    /\ pc' = "loop"
    /\ UNCHANGED <<Config, Ghost, last_processed_timestamp, handed, sink, logs>>

\* The generator yields the next record: the reader's cursor moves past it.
CanPull == pc = "loop" /\ gen_pos < Len(source)

Pull ==
    /\ gen_pos' = gen_pos + 1
    /\ last_processed_timestamp' = timestamp_of(gen_pos + 1)

\* A variant that counts the records waiting in the buffer as processed.
LimitReached_counting_buffer ==
    log_limit # NoLimit /\ processed_count + Len(record_buffer) >= log_limit

\* A variant that stops only once the count is past the limit.
LimitReached_past_limit == log_limit # NoLimit /\ processed_count > log_limit

LimitReached == log_limit # NoLimit /\ processed_count >= log_limit

\* Lines 55-56: the limit is tested on the record just yielded.
LoopBreak ==
    /\ CanPull
    /\ LimitReached
    /\ Pull
    /\ pc' = "after_loop"
    /\ UNCHANGED <<Config, Ghost, log_limit, record_buffer, buffer_pos,
                   batch_start_mongodb_timestamp, batch_end_mongodb_timestamp,
                   last_successful_batch_timestamp, processed_count, returned,
                   runs, handed, sink, logs>>

\* A variant that puts the new record at the front of the buffer.
Appended_prepending == <<source[gen_pos + 1]>> \o record_buffer

\* Lines 58-61, as every appending iteration does them.
Appended == Append(record_buffer, source[gen_pos + 1])
AppendedPos == Append(buffer_pos, gen_pos + 1)
BatchStart ==
    IF batch_start_mongodb_timestamp = NoTimestamp
    THEN timestamp_of(gen_pos + 1)
    ELSE batch_start_mongodb_timestamp

\* A variant that lets the buffer grow one record past the batch size.
BufferFull_past_size == Len(Appended) > writer_buffer_size

\* Line 62.
BufferFull == Len(Appended) >= writer_buffer_size

\* Lines 58-63 when the buffer is not yet full.
LoopAppend ==
    /\ CanPull
    /\ ~LimitReached
    /\ Pull
    /\ ~BufferFull
    /\ record_buffer' = Appended
    /\ buffer_pos' = AppendedPos
    /\ batch_start_mongodb_timestamp' = BatchStart
    /\ UNCHANGED <<Config, Ghost, log_limit, batch_end_mongodb_timestamp,
                   last_successful_batch_timestamp, processed_count, pc,
                   returned, runs, handed, sink, logs>>

Handed(ok) == [run |-> runs, positions |-> AppendedPos, ok |-> ok]

\* Lines 58-66 and 77-86: the buffer is full and the job succeeds.  The
\* code leaves the reader's cursor where the last yield put it.
BatchCommitted(cursor) ==
    /\ CanPull
    /\ ~LimitReached
    /\ gen_pos' = gen_pos + 1
    /\ last_processed_timestamp' = cursor
    /\ BufferFull
    /\ \E sink_ok \in BOOLEAN :
         LET r == run(Appended, job, sink_ok)
         IN  /\ ~r.raised
             /\ sink' = sink \o r.written
    /\ handed' = Append(handed, Handed(TRUE))
    /\ batch_end_mongodb_timestamp' = timestamp_of(gen_pos + 1)
    /\ processed_count' = processed_count + Len(Appended)
    /\ record_buffer' = <<>>
    /\ buffer_pos' = <<>>
    /\ logs' = Append(logs,
           [level |-> "info", tag |-> "record_batch_anonymized",
            count |-> processed_count + Len(Appended),
            range_start |-> BatchStart,
            range_end |-> timestamp_of(gen_pos + 1),
            last_successful |-> NoTimestamp])
    /\ batch_start_mongodb_timestamp' = NoTimestamp
    /\ last_successful_batch_timestamp' = timestamp_of(gen_pos + 1)
    /\ UNCHANGED <<Config, Ghost, log_limit, pc, returned, runs>>

\* A variant that sets the reader's cursor back to the batch's start.
LoopBatchCommitted_rewinding == BatchCommitted(BatchStart)

LoopBatchCommitted == BatchCommitted(timestamp_of(gen_pos + 1))

\* A variant that sets the reader's cursor to the failed batch's start.
LoopBatchFailed_rolling_to_batch_start ==
    /\ CanPull
    /\ ~LimitReached
    /\ gen_pos' = gen_pos + 1
    /\ BufferFull
    /\ \E sink_ok \in BOOLEAN :
         LET r == run(Appended, job, sink_ok)
         IN  /\ r.raised
             /\ sink' = sink \o r.written
    /\ handed' = Append(handed, Handed(FALSE))
    /\ record_buffer' = Appended
    /\ buffer_pos' = AppendedPos
    /\ batch_start_mongodb_timestamp' = BatchStart
    /\ batch_end_mongodb_timestamp' = timestamp_of(gen_pos + 1)
    /\ logs' = Append(logs,
           [level |-> "error", tag |-> "failed_anonymizing_record_batch",
            count |-> NoCount,
            range_start |-> Unformatted,
            range_end |-> Unformatted,
            last_successful |-> last_successful_batch_timestamp])
    /\ last_processed_timestamp' = BatchStart
    /\ returned' = processed_count
    /\ pc' = "returned"
    /\ UNCHANGED <<Config, Ghost, log_limit, last_successful_batch_timestamp,
                   processed_count, runs>>

\* Lines 58-75: the buffer is full and the job raises.  str.format is
\* applied to the second part of the message only.
LoopBatchFailed ==
    /\ CanPull
    /\ ~LimitReached
    /\ gen_pos' = gen_pos + 1
    /\ BufferFull
    /\ \E sink_ok \in BOOLEAN :
         LET r == run(Appended, job, sink_ok)
         IN  /\ r.raised
             /\ sink' = sink \o r.written
    /\ handed' = Append(handed, Handed(FALSE))
    /\ record_buffer' = Appended
    /\ buffer_pos' = AppendedPos
    /\ batch_start_mongodb_timestamp' = BatchStart
    /\ batch_end_mongodb_timestamp' = timestamp_of(gen_pos + 1)
    /\ logs' = Append(logs,
           [level |-> "error", tag |-> "failed_anonymizing_record_batch",
            count |-> NoCount,
            range_start |-> Unformatted,
            range_end |-> Unformatted,
            last_successful |-> last_successful_batch_timestamp])
    /\ last_processed_timestamp' = last_successful_batch_timestamp
    /\ returned' = processed_count
    /\ pc' = "returned"
    /\ UNCHANGED <<Config, Ghost, log_limit, last_successful_batch_timestamp,
                   processed_count, runs>>

\* A variant without lines 88-90: what is left in the buffer is forgotten.
LoopEnd_dropping_remainder ==
    /\ pc = "loop"
    /\ gen_pos >= Len(source)
    /\ pc' = "after_loop"
    /\ record_buffer' = <<>>
    /\ buffer_pos' = <<>>
    /\ UNCHANGED <<Config, Ghost, log_limit, last_processed_timestamp, gen_pos,
                   batch_start_mongodb_timestamp,
                   batch_end_mongodb_timestamp, last_successful_batch_timestamp,
                   processed_count, returned, runs, handed, sink, logs>>

\* The generator is exhausted: the for loop ends.
LoopEnd ==
    /\ pc = "loop"
    /\ gen_pos >= Len(source)
    /\ pc' = "after_loop"
    /\ UNCHANGED <<Config, Ghost, log_limit, last_processed_timestamp, gen_pos,
                   record_buffer, buffer_pos, batch_start_mongodb_timestamp,
                   batch_end_mongodb_timestamp, last_successful_batch_timestamp,
                   processed_count, returned, runs, handed, sink, logs>>

\* Lines 88 and 92 with an empty buffer.
ReturnCount ==
    /\ pc = "after_loop"
    /\ record_buffer = <<>>
    /\ returned' = processed_count
    /\ pc' = "returned"
    /\ UNCHANGED <<Config, Ghost, log_limit, last_processed_timestamp, gen_pos,
                   record_buffer, buffer_pos, batch_start_mongodb_timestamp,
                   batch_end_mongodb_timestamp, last_successful_batch_timestamp,
                   processed_count, runs, handed, sink, logs>>

FinalHanded(ok) == [run |-> runs, positions |-> buffer_pos, ok |-> ok]

\* A variant that returns the count of the full batches only.
FinalBatchCommitted_uncounted ==
    /\ pc = "after_loop"
    /\ record_buffer # <<>>
    /\ \E sink_ok \in BOOLEAN :
         LET r == run(record_buffer, job, sink_ok)
         IN  /\ ~r.raised
             /\ sink' = sink \o r.written
    /\ handed' = Append(handed, FinalHanded(TRUE))
    /\ returned' = processed_count
    /\ pc' = "returned"
    /\ UNCHANGED <<Config, Ghost, log_limit, last_processed_timestamp, gen_pos,
                   record_buffer, buffer_pos, batch_start_mongodb_timestamp,
                   batch_end_mongodb_timestamp, last_successful_batch_timestamp,
                   processed_count, runs, logs>>

\* Lines 88-92: the remainder is run and succeeds.
FinalBatchCommitted ==
    /\ pc = "after_loop"
    /\ record_buffer # <<>>
    /\ \E sink_ok \in BOOLEAN :
         LET r == run(record_buffer, job, sink_ok)
         IN  /\ ~r.raised
             /\ sink' = sink \o r.written
    /\ handed' = Append(handed, FinalHanded(TRUE))
    /\ processed_count' = processed_count + Len(record_buffer)
    /\ returned' = processed_count + Len(record_buffer)
    /\ pc' = "returned"
    /\ UNCHANGED <<Config, Ghost, log_limit, last_processed_timestamp, gen_pos,
                   record_buffer, buffer_pos, batch_start_mongodb_timestamp,
                   batch_end_mongodb_timestamp, last_successful_batch_timestamp,
                   runs, logs>>

\* Lines 88-89: the remainder is run outside any try, so the job's
\* exception leaves anonymize.
FinalBatchRaised ==
    /\ pc = "after_loop"
    /\ record_buffer # <<>>
    /\ \E sink_ok \in BOOLEAN :
         LET r == run(record_buffer, job, sink_ok)
         IN  /\ r.raised
             /\ sink' = sink \o r.written
    /\ handed' = Append(handed, FinalHanded(FALSE))
    /\ pc' = "raised"
    /\ UNCHANGED <<Config, Ghost, log_limit, last_processed_timestamp, gen_pos,
                   record_buffer, buffer_pos, batch_start_mongodb_timestamp,
                   batch_end_mongodb_timestamp, last_successful_batch_timestamp,
                   processed_count, returned, runs, logs>>

Next ==
    \/ Anonymize
    \/ LoopBreak
    \/ LoopAppend
    \/ LoopBatchCommitted
    \/ LoopBatchFailed
    \/ LoopEnd
    \/ ReturnCount
    \/ FinalBatchCommitted
    \/ FinalBatchRaised

Spec == Init /\ [][Next]_vars

(***************************************************************************)
(* Single calls of the AnonymizationJob's methods on inputs drawn from the *)
(* sets above; no anonymize run is under way.                              *)
(***************************************************************************)
InitJob ==
    /\ source = <<>>
    /\ writer_buffer_size = 1
    /\ job = PlainJob
    /\ log_limit = NoLimit
    /\ last_processed_timestamp = timestamp_of(0)
    /\ gen_pos = 0
    /\ record_buffer = <<>>
    /\ buffer_pos = <<>>
    /\ batch_start_mongodb_timestamp = NoTimestamp
    /\ batch_end_mongodb_timestamp = NoTimestamp
    /\ last_successful_batch_timestamp = NoTimestamp
    /\ processed_count = 0
    /\ pc = "idle"
    /\ returned = NoCount
    /\ runs = 0
    /\ handed = <<>>
    /\ sink = <<>>
    /\ logs = <<>>
    /\ call \in Calls
    /\ result = NoResult

CallMatches ==
    /\ call.op = "matches"
    /\ result = NoResult
    /\ result' = [op |-> "matches",
                  matched |-> record_matches_conditions(call.record, call.conditions)]
    /\ UNCHANGED <<driver_vars, call>>

CallHidden ==
    /\ call.op = "hidden"
    /\ result = NoResult
    /\ result' = [op |-> "hidden",
                  hidden |-> should_be_hidden(call.record, call.hiding_rules)]
    /\ UNCHANGED <<driver_vars, call>>

CallSubstitute ==
    /\ call.op = "substitute"
    /\ result = NoResult
    /\ LET r == substitute(call.record, call.substitution_rules)
       IN  result' = [op |-> "substitute", record |-> r.record, fired |-> r.fired]
    /\ UNCHANGED <<driver_vars, call>>

\* A variant of run that masks in the batch itself: the mask fields are set
\* in the agent sub-mappings of the dual records before they are translated.
masked_in_place(dual_record, j) ==
    [k \in DOMAIN dual_record |->
        IF k \in AgentKeys
        THEN [f \in DOMAIN dual_record[k] \cup j.field_value_masks[k] |->
                 IF f \in j.field_value_masks[k] THEN None
                 ELSE dual_record[k][f]]
        ELSE dual_record[k]]

CallRun_masking_in_place ==
    /\ call.op = "run"
    /\ result = NoResult
    /\ LET r == run(call.dual_records, call.job, call.sink_ok)
       IN  result' = [op |-> "run", raised |-> r.raised,
                      sink_calls |-> r.sink_calls, written |-> r.written,
                      events |-> r.events]
    /\ call' = [call EXCEPT !.dual_records =
                   [i \in DOMAIN @ |-> masked_in_place(@[i], call.job)]]
    /\ UNCHANGED driver_vars

\* A variant of run whose split fills the agent's own sub-mapping of the
\* dual record instead of a new mapping.
split_in_place(dual_record, j) ==
    [k \in DOMAIN dual_record |->
        IF k \in AgentKeys /\ ~get_agent_record(k, dual_record, j).raised
        THEN get_agent_record(k, dual_record, j).record
        ELSE dual_record[k]]

CallRun_splitting_in_place ==
    /\ call.op = "run"
    /\ result = NoResult
    /\ LET r == run(call.dual_records, call.job, call.sink_ok)
       IN  result' = [op |-> "run", raised |-> r.raised,
                      sink_calls |-> r.sink_calls, written |-> r.written,
                      events |-> r.events]
    /\ call' = [call EXCEPT !.dual_records =
                   [i \in DOMAIN @ |-> split_in_place(@[i], call.job)]]
    /\ UNCHANGED driver_vars

\* run assigns no attribute of the job and no item of a dual record: every
\* item assignment (lines 284, 322, 328) goes to the mapping built at line
\* 316.  The batch and the job are after the call what they were before.
CallRun ==
    /\ call.op = "run"
    /\ result = NoResult
    /\ LET r == run(call.dual_records, call.job, call.sink_ok)
       IN  result' = [op |-> "run", raised |-> r.raised,
                      sink_calls |-> r.sink_calls, written |-> r.written,
                      events |-> r.events]
    /\ UNCHANGED <<driver_vars, call>>

\* A second call of run on the batch and the job as the first call left
\* them; the writer takes or refuses the list independently of the first call.
CallRunAgain ==
    /\ call.op = "run"
    /\ result.op = "run"
    /\ \E sink_ok \in BOOLEAN :
           LET r == run(call.dual_records, call.job, sink_ok)
           IN  result' = [op |-> "run_again", first |-> result,
                          raised |-> r.raised, sink_calls |-> r.sink_calls]
    /\ UNCHANGED <<driver_vars, call>>

CallGetAgentRecord ==
    /\ call.op = "get_agent_record"
    /\ result = NoResult
    /\ LET r == get_agent_record(call.agent, call.dual_record, call.job)
       IN  result' = IF r.raised
                     THEN [op |-> "get_agent_record", raised |-> TRUE]
                     ELSE [op |-> "get_agent_record", raised |-> FALSE,
                           record |-> r.record]
    /\ UNCHANGED <<driver_vars, call>>

CallGetRecords ==
    /\ call.op = "get_records"
    /\ result = NoResult
    /\ LET r == get_records(call.dual_record, call.job)
       IN  result' = IF r.raised
                     THEN [op |-> "get_records", raised |-> TRUE]
                     ELSE [op |-> "get_records", raised |-> FALSE,
                           records |-> r.records]
    /\ UNCHANGED <<driver_vars, call>>

CallGetFieldTranslations ==
    /\ call.op = "get_field_translations"
    /\ result = NoResult
    /\ LET r == get_field_translations(call.lines)
       IN  result' = IF r.raised
                     THEN [op |-> "get_field_translations", raised |-> TRUE]
                     ELSE [op |-> "get_field_translations", raised |-> FALSE,
                           translations |-> r.translations]
    /\ UNCHANGED <<driver_vars, call>>

CallAnonymizerInit ==
    /\ call.op = "Anonymizer_init"
    /\ result = NoResult
    /\ LET r == Anonymizer_init(call.settings)
       IN  result' = IF r.raised
                     THEN [op |-> "Anonymizer_init", raised |-> TRUE,
                           logged |-> r.logged]
                     ELSE [op |-> "Anonymizer_init", raised |-> FALSE,
                           anonymization_job |-> r.anonymization_job]
    /\ UNCHANGED <<driver_vars, call>>

CallGetFieldValueMasks ==
    /\ call.op = "get_field_value_masks"
    /\ result = NoResult
    /\ result' = [op |-> "get_field_value_masks",
                  masks |-> get_field_value_masks(call.fields)]
    /\ UNCHANGED <<driver_vars, call>>

CallCleanOrder ==
    /\ call.op = "clean_order"
    /\ result = NoResult
    /\ result' = [op |-> "clean_order", ended |-> clean_order(call.order)]
    /\ UNCHANGED <<driver_vars, call>>

NextJob ==
    \/ CallMatches
    \/ CallHidden
    \/ CallSubstitute
    \/ CallRun
    \/ CallRunAgain
    \/ CallGetAgentRecord
    \/ CallGetRecords
    \/ CallGetFieldTranslations
    \/ CallAnonymizerInit
    \/ CallGetFieldValueMasks
    \/ CallCleanOrder

SpecJob == InitJob /\ [][NextJob]_vars

(***************************************************************************)
(* Properties of the single calls (checked under SpecJob).                 *)
(***************************************************************************)
Max(S) == CHOOSE m \in S : \A n \in S : n <= m

\* A record satisfies a condition: the field is there and the pattern
\* matches the string form of its value.
Satisfies(record, condition) ==
    /\ condition.feature \in DOMAIN record
    /\ pattern_match(condition.pattern, str(record[condition.feature]))

SatisfiesAll(record, conditions) ==
    \A j \in DOMAIN conditions : Satisfies(record, conditions[j])

\* What one single record becomes when it is not hidden.
Output(record, j) ==
    apply_transformers(substitute(record, j.substitution_rules).record,
                       j.transformers, 1)

SplitRaises(dual_record, j) == get_records(dual_record, j).raised

RecordRaises(dual_record, j) ==
    /\ ~SplitRaises(dual_record, j)
    /\ \E k \in DOMAIN get_records(dual_record, j).records :
         LET record == get_records(dual_record, j).records[k]
         IN  /\ ~should_be_hidden(record, j.hiding_rules)
             /\ Output(record, j).raised

StepRaises(dual_records, j) ==
    \E i \in DOMAIN dual_records :
        SplitRaises(dual_records[i], j) \/ RecordRaises(dual_records[i], j)

Survivors(dual_record, j) ==
    LET kept == SelectSeq(get_records(dual_record, j).records,
                          LAMBDA r : ~should_be_hidden(r, j.hiding_rules))
    IN  [k \in 1..Len(kept) |-> Output(kept[k], j).record]

RECURSIVE AllSurvivors(_, _)
AllSurvivors(dual_records, j) ==
    IF dual_records = <<>> THEN <<>>
    ELSE Survivors(Head(dual_records), j) \o AllSurvivors(Tail(dual_records), j)

C6_OneSinkCallPerBatch ==
    (result.op = "run")
        => /\ Len(result.sink_calls) <= 1
           /\ ~result.raised =>
                result.sink_calls = <<AllSurvivors(call.dual_records, call.job)>>
           /\ (~StepRaises(call.dual_records, call.job)) =>
                Len(result.sink_calls) = 1

\* Every record of a two-record batch is hidden: the empty list is written.
C6_Witness ==
    /\ result.op = "run"
    /\ Len(call.dual_records) = 2
    /\ ~result.raised
    /\ result.sink_calls = << <<>> >>
    /\ \E n \in DOMAIN result.events : result.events[n].stage = "hidden"

\* C8: a single record is hidden exactly when it satisfies every condition
\* of at least one hiding rule; with the rule fieldA ~ ^1$ the record
\* {fieldA: "1"} is hidden and {fieldA: "2"} is not, and run on the dual
\* record {client: {a: "1"}, producer: {a: "2"}, ts: 100} writes the
\* producer's record alone, without raising.
C8_HiddenIffSomeRuleSatisfied ==
    /\ (result.op = "hidden")
        => /\ result.hidden <=>
                \E i \in DOMAIN call.hiding_rules :
                    SatisfiesAll(call.record, call.hiding_rules[i])
           /\ (call.hiding_rules = <<HideFieldAOne>>
               /\ call.record = [fieldA |-> StrVal("1")]) => result.hidden
           /\ (call.hiding_rules = <<HideFieldAOne>>
               /\ call.record = [fieldA |-> StrVal("2")]) => ~result.hidden
    /\ (result.op = "run" /\ call.job = HidingJob
        /\ call.dual_records = <<DualBoth>> /\ call.sink_ok)
        => /\ ~result.raised
           /\ result.written = << <<[fieldA |-> StrVal("2"), ts |-> IntVal(100)]>> >>

\* The second of two rules hides the record, the first does not.
C8_Witness ==
    /\ result.op = "hidden"
    /\ Len(call.hiding_rules) = 2
    /\ ~SatisfiesAll(call.record, call.hiding_rules[1])
    /\ Len(call.hiding_rules[2]) = 2
    /\ result.hidden

\* C9: a record that lacks a field named anywhere in a non-empty condition
\* list does not match the list.
C9_MissingFieldNeverMatches ==
    (result.op = "matches"
     /\ \E j \in DOMAIN call.conditions :
            call.conditions[j].feature \notin DOMAIN call.record)
        => ~result.matched

\* The first condition is satisfied and the field of the second is absent.
C9_Witness ==
    /\ result.op = "matches"
    /\ Len(call.conditions) = 2
    /\ Satisfies(call.record, call.conditions[1])
    /\ call.conditions[2].feature \notin DOMAIN call.record
    /\ ~result.matched

TargetsOf(rule, field) ==
    {j \in DOMAIN rule.substitutes : rule.substitutes[j].feature = field}

FiredOn(field) ==
    {i \in {result.fired[n] : n \in DOMAIN result.fired} :
        TargetsOf(call.substitution_rules[i], field) # {}}

\* C10: the substitution rules fire in declaration order, and a field that
\* several fired rules target ends with the value the last of them (in
\* declaration order) assigns to it last.
C10_LaterRuleWins ==
    (result.op = "substitute")
        => /\ \A n, m \in DOMAIN result.fired :
                n < m => result.fired[n] < result.fired[m]
           /\ \A f \in Fields :
                FiredOn(f) # {} =>
                    LET rule == call.substitution_rules[Max(FiredOn(f))]
                    IN  /\ f \in DOMAIN result.record
                        /\ result.record[f] =
                               rule.substitutes[Max(TargetsOf(rule, f))].value

\* Two different rules fired on the same field and the second one's value
\* replaced the first one's.
C10_Witness ==
    /\ result.op = "substitute"
    /\ result.fired = <<1, 2>>
    /\ FiredOn("fieldB") = {1, 2}
    /\ LET first == call.substitution_rules[1]
       IN  result.record["fieldB"] #
               first.substitutes[Max(TargetsOf(first, "fieldB"))].value
    /\ "fieldB" \notin DOMAIN call.record

OtherAgent(agent) == IF agent = "client" THEN "producer" ELSE "client"

WithMask(j, agent, mask) == [j EXCEPT !.field_value_masks[agent] = mask]

\* C11: every field of the agent's mask set is in the record
\* _get_agent_record returns, with the value None, whether or not the source
\* carried the field; the other agent's mask set changes nothing in this
\* agent's record.  With the client mask {fieldA} the client record of
\* {client: {a: "1"}, producer: {a: "2"}, ts: 100} is {fieldA: None, ts: 100}
\* and the producer record stays {fieldA: "2", ts: 100}.
C11_MaskedFieldsAreNull ==
    (result.op = "get_agent_record" /\ ~result.raised)
        => /\ \A f \in call.job.field_value_masks[call.agent] :
                f \in DOMAIN result.record /\ result.record[f] = None
           /\ result.record =
                  get_agent_record(call.agent, call.dual_record,
                      WithMask(call.job, OtherAgent(call.agent), {})).record
           /\ (call.dual_record = DualBoth
               /\ call.job.field_value_masks = [client |-> {"fieldA"}, producer |-> {}])
                  => result.record =
                         IF call.agent = "client"
                         THEN [fieldA |-> None, ts |-> IntVal(100)]
                         ELSE [fieldA |-> StrVal("2"), ts |-> IntVal(100)]

\* A masked field the source did not carry is in the record, as None, while
\* the other agent masks a field this record carries with its value.
C11_Witness ==
    /\ result.op = "get_agent_record"
    /\ ~result.raised
    /\ call.agent = "client"
    /\ call.dual_record = DualBoth
    /\ call.job.field_value_masks = [client |-> {"fieldB"}, producer |-> {"fieldA"}]
    /\ result.record = [fieldA |-> StrVal("1"), fieldB |-> None, ts |-> IntVal(100)]

AgentsIn(dual_record) == DOMAIN dual_record \cap AgentKeys

\* C12: _get_records returns no record when the dual record has neither
\* agent key, one when it has exactly one of them and two when it has both,
\* the client's record before the producer's.
C12_ZeroToTwoRecordsClientFirst ==
    (result.op = "get_records" /\ ~result.raised)
        => /\ Len(result.records) = Cardinality(AgentsIn(call.dual_record))
           /\ "client" \in DOMAIN call.dual_record =>
                result.records[1] =
                    get_agent_record("client", call.dual_record, call.job).record
           /\ "producer" \in DOMAIN call.dual_record =>
                result.records[Len(result.records)] =
                    get_agent_record("producer", call.dual_record, call.job).record

\* Both agents are there and their records differ.
C12_Witness ==
    /\ result.op = "get_records"
    /\ ~result.raised
    /\ AgentsIn(call.dual_record) = AgentKeys
    /\ Len(result.records) = 2
    /\ result.records[1] # result.records[2]
    /\ result.records[1] =
           get_agent_record("client", call.dual_record, call.job).record

NoMasksIn(j) == j.field_value_masks = NoMasks

SharedKeys(dual_record) == DOMAIN dual_record \ AgentKeys

SharedNames(dual_record, j) ==
    {j.field_translations[k] : k \in SharedKeys(dual_record)}

\* C13: without masks a single-agent record holds exactly the agent's
\* fields under their translated names and every shared top-level field
\* under its translated name, with the source's values;
\* {client: {a: "1"}, producer: {a: "2"}, ts: 100} gives
\* {fieldA: "1", ts: 100} and then {fieldA: "2", ts: 100}.
C13_TranslatedAgentAndSharedFields ==
    /\ (result.op = "get_agent_record" /\ ~result.raised /\ NoMasksIn(call.job))
        => LET table == call.job.field_translations[call.agent]
               fields == call.dual_record[call.agent]
           IN  /\ DOMAIN result.record =
                      {table[k] : k \in DOMAIN fields}
                          \cup SharedNames(call.dual_record, call.job)
               /\ \A k \in SharedKeys(call.dual_record) :
                      result.record[call.job.field_translations[k]] =
                          call.dual_record[k]
               /\ \A k \in DOMAIN fields :
                      table[k] \notin SharedNames(call.dual_record, call.job)
                          => result.record[table[k]] = fields[k]
    /\ (result.op = "get_records" /\ NoMasksIn(call.job)
        /\ call.dual_record = DualBoth)
        => /\ ~result.raised
           /\ result.records = <<[fieldA |-> StrVal("1"), ts |-> IntVal(100)],
                                 [fieldA |-> StrVal("2"), ts |-> IntVal(100)]>>

\* A record with two agent fields and a shared field, no masks.
C13_Witness ==
    /\ result.op = "get_agent_record"
    /\ ~result.raised
    /\ NoMasksIn(call.job)
    /\ call.agent = "client"
    /\ call.dual_record = DualFull
    /\ result.record =
           [fieldA |-> StrVal("1"), fieldB |-> StrVal("2"), ts |-> IntVal(100)]

UntranslatedAgentKey(dual_record, j) ==
    \E a \in AgentsIn(dual_record) :
        \E k \in DOMAIN dual_record[a] : k \notin DOMAIN j.field_translations[a]

UntranslatedSharedKey(dual_record, j) ==
    \E k \in SharedKeys(dual_record) : k \notin DOMAIN j.field_translations

Untranslated(dual_record, j) ==
    UntranslatedAgentKey(dual_record, j) \/ UntranslatedSharedKey(dual_record, j)

SplitFails == result.op = "get_records" => result.raised

BatchFailsUnwritten ==
    result.op = "run"
        => result.raised /\ result.sink_calls = <<>> /\ result.written = <<>>

\* C14 as stated: a dual record with an agent key or a shared key that has
\* no translation makes the split raise, and run fails without writing.
C14_UntranslatedKeyFailsBatch ==
    /\ (result.op = "get_records" /\ Untranslated(call.dual_record, call.job))
        => SplitFails
    /\ (result.op = "run"
        /\ \E i \in DOMAIN call.dual_records :
               Untranslated(call.dual_records[i], call.job))
        => BatchFailsUnwritten

\* C14, amended: the same for a dual record that holds a client or a
\* producer key; a dual record with neither is never translated.
C14_UntranslatedKeyOfAgentRecordFailsBatch ==
    /\ (result.op = "get_records" /\ Untranslated(call.dual_record, call.job)
        /\ AgentsIn(call.dual_record) # {})
        => SplitFails
    /\ (result.op = "run"
        /\ \E i \in DOMAIN call.dual_records :
               /\ Untranslated(call.dual_records[i], call.job)
               /\ AgentsIn(call.dual_records[i]) # {})
        => BatchFailsUnwritten

\* A batch whose second record has an untranslated shared key, after a
\* record that went through all stages, has failed without a write.
C14_Witness ==
    /\ result.op = "run"
    /\ call.dual_records = <<DualBoth, DualSharedUntranslated>>
    /\ call.job = PlainJob
    /\ result.raised
    /\ result.sink_calls = <<>>
    /\ \E e \in DOMAIN result.events : result.events[e].stage = "collect"

Range(seq) == {seq[n] : n \in DOMAIN seq}

\* The single record an event is about, as the split returned it.
SplitRecord(e) ==
    get_records(call.dual_records[e.dual], call.job).records[e.rec]

HasEvent(events, e) == \E n \in DOMAIN events : events[n] = e

LaterStages == {"substitute", "transform", "collect"}

\* C17: the stages of a record come in the order split (with masking),
\* hiding check, substitution, transformers, collection.  The hiding check
\* is made on the record as the split returned it; a hidden record has no
\* later stage; the write comes last, when every record of every dual record
\* of the batch was either hidden or collected.
C17_StagesInOrder ==
    (result.op = "run")
        => LET events == result.events
           IN  \A n \in DOMAIN events :
                 LET e == events[n]
                     same(stage) == Event(stage, e.dual, e.rec)
                 IN  /\ e.stage = "split"
                        => \A m \in DOMAIN events : events[m].dual = e.dual => m >= n
                     /\ e.stage = "hidden"
                        => /\ should_be_hidden(SplitRecord(e), call.job.hiding_rules)
                           /\ \A stage \in LaterStages : ~HasEvent(events, same(stage))
                           /\ HasEvent(events, Event("split", e.dual, 0))
                     /\ e.stage = "kept"
                        => /\ ~should_be_hidden(SplitRecord(e), call.job.hiding_rules)
                           /\ HasEvent(events, Event("split", e.dual, 0))
                           /\ n + 2 <= Len(events)
                           /\ events[n + 1] = same("substitute")
                           /\ events[n + 2] = same("transform")
                           /\ \/ n + 2 = Len(events) /\ result.raised
                              \/ n + 3 <= Len(events) /\ events[n + 3] = same("collect")
                     /\ e.stage \in LaterStages
                        => /\ n > 1
                           /\ events[n - 1] =
                                  same(CASE e.stage = "substitute" -> "kept"
                                         [] e.stage = "transform" -> "substitute"
                                         [] e.stage = "collect" -> "transform")
                     /\ e.stage = "write"
                        => /\ n = Len(events)
                           /\ \A i \in DOMAIN call.dual_records :
                                /\ HasEvent(events, Event("split", i, 0))
                                /\ \A k \in DOMAIN get_records(call.dual_records[i],
                                                               call.job).records :
                                     \/ HasEvent(events, Event("hidden", i, k))
                                     \/ HasEvent(events, Event("collect", i, k))

\* The client record is hidden; the producer record is kept, and
\* substitution then gives it the value the hiding rule looks for; the list
\* with that record is written after both.
C17_Witness ==
    /\ result.op = "run"
    /\ call.job = OrderJob(<<>>)
    /\ call.dual_records = <<DualBoth>>
    /\ result.events = <<Event("split", 1, 0), Event("hidden", 1, 1),
                         Event("kept", 1, 2), Event("substitute", 1, 2),
                         Event("transform", 1, 2), Event("collect", 1, 2),
                         Event("write", 0, 0)>>
    /\ result.sink_calls = <<<<[fieldA |-> StrVal("1"), ts |-> IntVal(250)]>>>>

\* The record after the first n transformers of the list, each given what
\* the one before it returned.
RECURSIVE ChainUpTo(_, _, _)
ChainUpTo(record, names, n) ==
    IF n = 0 THEN [raised |-> FALSE, record |-> record]
    ELSE LET before == ChainUpTo(record, names, n - 1)
         IN  IF before.raised THEN Raised
             ELSE transformer(names[n], before.record)

Chained(record, j) ==
    ChainUpTo(substitute(record, j.substitution_rules).record,
              j.transformers, Len(j.transformers))

\* The records of the batch that are not hidden, in the order of the split.
RECURSIVE KeptRecords(_, _)
KeptRecords(dual_records, j) ==
    IF dual_records = <<>> THEN <<>>
    ELSE SelectSeq(get_records(Head(dual_records), j).records,
                   LAMBDA r : ~should_be_hidden(r, j.hiding_rules))
             \o KeptRecords(Tail(dual_records), j)

\* C18: what is written for a record that is not hidden is the substituted
\* record passed through the transformers in the configured order, once
\* each, every one applied to what the one before returned; when a
\* transformer raises for such a record, run raises and the writer is not
\* called.
C18_TransformersInOrderAfterSubstitution ==
    (result.op = "run")
        => /\ ~result.raised
              => LET kept == KeptRecords(call.dual_records, call.job)
                 IN  result.sink_calls =
                         <<[n \in 1..Len(kept) |-> Chained(kept[n], call.job).record]>>
           /\ (\E i \in DOMAIN call.dual_records :
                  /\ ~SplitRaises(call.dual_records[i], call.job)
                  /\ \E r \in Range(KeptRecords(<<call.dual_records[i]>>, call.job)) :
                         Chained(r, call.job).raised)
              => result.raised /\ result.sink_calls = <<>>

\* Hashing then truncating the substituted value "1" gives "h"; the other
\* order would give "h1", and transforming before substituting "1".
C18_Witness ==
    /\ result.op = "run"
    /\ call.job = OrderJob(<<"hash_fieldA", "truncate_fieldA">>)
    /\ call.dual_records = <<DualBoth>>
    /\ ~result.raised
    /\ result.sink_calls = <<<<[fieldA |-> StrVal("h"), ts |-> IntVal(250)]>>>>

\* The places of a batch's outputs in source order: dual record by dual
\* record, the client's before the producer's.
AgentSlots(dual_records) ==
    SelectSeq([n \in 1..(2 * Len(dual_records)) |->
                  [dual |-> (n + 1) \div 2,
                   agent |-> IF n % 2 = 1 THEN "client" ELSE "producer"]],
              LAMBDA slot : slot.agent \in DOMAIN dual_records[slot.dual])

SlotRecord(slot) ==
    get_agent_record(slot.agent, call.dual_records[slot.dual], call.job).record

SlotKept(slot) == ~should_be_hidden(SlotRecord(slot), call.job.hiding_rules)

Indices(seq) == [n \in 1..Len(seq) |-> n]

\* C19: the list handed to the writer has the outputs in source order, an
\* earlier dual record's before a later one's and the client's before the
\* producer's; it is the list the job would hand over without hiding rules,
\* less the elements of the hidden records, the rest in the same order.
C19_SinkListInSourceOrder ==
    (result.op = "run" /\ ~result.raised)
        => LET slots == AgentSlots(call.dual_records)
               kept == SelectSeq(slots, SlotKept)
               kept_at == SelectSeq(Indices(slots), LAMBDA n : SlotKept(slots[n]))
               unhidden == run(call.dual_records,
                               [call.job EXCEPT !.hiding_rules = <<>>], TRUE)
           IN  /\ result.sink_calls =
                      <<[n \in 1..Len(kept) |->
                            Output(SlotRecord(kept[n]), call.job).record]>>
               /\ ~unhidden.raised
                    => result.sink_calls =
                           <<[n \in 1..Len(kept_at) |->
                                 unhidden.sink_calls[1][kept_at[n]]]>>

\* Three different outputs in source order; the third of the four single
\* records was hidden.
C19_Witness ==
    /\ result.op = "run"
    /\ call.job = HidingJob
    /\ call.dual_records = <<DualNoTs, DualBoth>>
    /\ result.sink_calls =
           <<<<[fieldA |-> StrVal("2")], [fieldB |-> StrVal("1")],
               [fieldA |-> StrVal("2"), ts |-> IntVal(100)]>>>>

\* C25 (as claimed): a translations file with a line whose original name
\* has more than two dot-separated segments makes _get_field_translations,
\* and so the construction of the Anonymizer, raise.
C25_TooManySegmentsRaise ==
    (result.op = "get_field_translations"
     /\ \E n \in DOMAIN call.lines : Len(call.lines[n].original) > 2)
        => result.raised

BadLine(lines) == \E n \in DOMAIN lines : Len(lines[n].rest) # 1

BadRegex(constraints) == \E n \in DOMAIN constraints : ~constraints[n].regex.valid

BadSettings(settings) ==
    \/ BadLine(settings.lines)
    \/ \E r \in DOMAIN settings.hiding_rules : BadRegex(settings.hiding_rules[r])
    \/ \E r \in DOMAIN settings.substitution_rules :
           BadRegex(settings.substitution_rules[r].conditions)
    \/ \E n \in DOMAIN settings.transformers :
           settings.transformers[n] \notin TransformerNames

\* C26: the construction of the Anonymizer raises, and leaves no
\* anonymization job, when a line of the translations file has not exactly
\* one ' -> ' (a blank line has none), when a regex of a hiding rule or of a
\* substitution rule does not compile, or when a transformer is not found;
\* also when a ready-made job is passed in.  A translations file alone with
\* such a line makes _get_field_translations raise.
C26_BadSettingsFailConstruction ==
    /\ (result.op = "Anonymizer_init" /\ BadSettings(call.settings))
        => result.raised /\ "anonymization_job" \notin DOMAIN result
    /\ (result.op = "get_field_translations" /\ BadLine(call.lines))
        => result.raised

\* A job is passed in and all is well but for a blank line at the end of
\* the translations file.
C26_Witness ==
    /\ result.op = "Anonymizer_init"
    /\ call.settings.anonymization_job = PlainJob
    /\ call.settings.lines = Append(GoodLines, BlankLine)
    /\ call.settings.hiding_rules = <<GoodConstraints>>
    /\ call.settings.transformers = <<"reduce_ts_precision">>
    /\ call.settings.substitution_rules = <<>>
    /\ result.raised
    /\ result.logged = "field_translations_parsing_failed"

\* The record of the call after the first k of the rules that fired have
\* assigned their values.
RECURSIVE AfterFired(_)
AfterFired(k) ==
    IF k = 0 THEN call.record
    ELSE apply_substitutes(
             AfterFired(k - 1),
             call.substitution_rules[result.fired[k]].substitutes, 1)

\* The record as rule i finds it: after the rules before i that fired.
FoundBy(i) ==
    AfterFired(Cardinality({k \in DOMAIN result.fired : result.fired[k] < i}))

MatchesOriginal(i) ==
    record_matches_conditions(call.record, call.substitution_rules[i].conditions)

\* C30: _substitute tests the conditions of each rule on the record as the
\* earlier rules that fired have left it, not on the record as it was
\* given: a rule fires exactly when its conditions match that record, and
\* the record returned is the one the rules that fired leave.
C30_ConditionsSeeEarlierSubstitutions ==
    (result.op = "substitute")
        => /\ \A i \in DOMAIN call.substitution_rules :
                (i \in Range(result.fired))
                    <=> record_matches_conditions(
                            FoundBy(i), call.substitution_rules[i].conditions)
           /\ result.record = AfterFired(Len(result.fired))

\* The second rule fired because of what the first rule assigned: its
\* conditions do not match the record as it was given.
C30_Witness ==
    /\ result.op = "substitute"
    /\ result.fired = <<1, 2>>
    /\ MatchesOriginal(1)
    /\ ~MatchesOriginal(2)

\* The first rule fired and kept the second from firing: the second rule's
\* conditions match the record as it was given.
C30_WitnessKeptFromFiring ==
    /\ result.op = "substitute"
    /\ Len(call.substitution_rules) = 2
    /\ result.fired = <<1>>
    /\ MatchesOriginal(2)

\* The agent whose record is the k-th of the split of a dual record.
AgentOf(dual_record, k) ==
    IF k = 1 /\ "client" \in DOMAIN dual_record THEN "client" ELSE "producer"

\* The agent's record with the source's values: translated and not masked.
Unmasked(agent, dual_record) ==
    get_agent_record(agent, dual_record,
        [call.job EXCEPT !.field_value_masks = NoMasks]).record

\* The conditions as the claim reads them: a masked field is there and is
\* the text "None", any other field is tested on the source's value.
HoldsBehindMask(conditions, mask, unmasked) ==
    \A n \in DOMAIN conditions :
        LET field == conditions[n].feature
            pattern == conditions[n].pattern
        IN  IF field \in mask THEN pattern_match(pattern, "None")
            ELSE /\ field \in DOMAIN unmasked
                 /\ pattern_match(pattern, str(unmasked[field]))

SlotMask(slot) == call.job.field_value_masks[slot.agent]

SlotUnmasked(slot) == Unmasked(slot.agent, call.dual_records[slot.dual])

SlotHiddenBehindMask(slot) ==
    \E r \in DOMAIN call.job.hiding_rules :
        HoldsBehindMask(call.job.hiding_rules[r], SlotMask(slot),
                        SlotUnmasked(slot))

\* What is written for a record of a job with one substitution rule and no
\* transformer.
SlotWrittenBehindMask(slot) ==
    LET mask == SlotMask(slot)
        unmasked == SlotUnmasked(slot)
        masked == [f \in DOMAIN unmasked \cup mask |->
                      IF f \in mask THEN None ELSE unmasked[f]]
        rule == call.job.substitution_rules[1]
    IN  IF HoldsBehindMask(rule.conditions, mask, unmasked)
        THEN apply_substitutes(masked, rule.substitutes, 1)
        ELSE masked

\* C31: the hiding rules and the substitution rules never see the source's
\* value of a masked field: a field of the agent's mask set is in the record
\* and is tested as the text "None".  A record is hidden exactly when a
\* hiding rule holds when read that way, and a (first) substitution rule
\* fires exactly when its conditions hold when read that way.
C31_RulesSeeMaskedFieldsAsNone ==
    /\ (result.op = "run")
        => \A n \in DOMAIN result.events :
               LET e == result.events[n]
                   dual_record == call.dual_records[e.dual]
                   slot == [dual |-> e.dual, agent |-> AgentOf(dual_record, e.rec)]
               IN  e.stage \in {"hidden", "kept"}
                       => ((e.stage = "hidden") <=> SlotHiddenBehindMask(slot))
    /\ (/\ result.op = "run"
        /\ result.written # <<>>
        /\ Len(call.job.substitution_rules) = 1
        /\ call.job.transformers = <<>>)
        => LET kept == SelectSeq(AgentSlots(call.dual_records),
                                 LAMBDA slot : ~SlotHiddenBehindMask(slot))
           IN  result.written[1] =
                   [n \in 1..Len(kept) |-> SlotWrittenBehindMask(kept[n])]

\* Client mask {fieldA}, hiding rule fieldA ~ ^1$ and a substitution rule
\* with the same condition: the client's record of the first dual record,
\* whose source value is "1", is neither hidden nor substituted; the
\* producer's record of the second, with the same source value and no mask,
\* is hidden.
C31_Witness ==
    /\ result.op = "run"
    /\ call.job = MaskedHidingJob
    /\ call.dual_records = <<DualBoth, DualHidden>>
    /\ DualBoth.client.a = DualHidden.producer.a
    /\ HasEvent(result.events, Event("kept", 1, 1))
    /\ HasEvent(result.events, Event("hidden", 2, 1))
    /\ result.written = << <<[fieldA |-> None, ts |-> IntVal(100)],
                             [fieldA |-> StrVal("2"), ts |-> IntVal(100)]>> >>

\* A rule that looks for the text "None" in a masked field holds.
C31_WitnessNone ==
    /\ result.op = "run"
    /\ call.job = MaskedNoneJob
    /\ call.dual_records = <<DualBoth>>
    /\ HasEvent(result.events, Event("kept", 1, 1))
    /\ HasEvent(result.events, Event("hidden", 1, 2))
    /\ result.written = << <<[fieldA |-> StrVal("x"), ts |-> IntVal(100)]>> >>

HasEmptyGroup(hiding_rules) ==
    \E r \in DOMAIN hiding_rules : hiding_rules[r] = <<>>

\* C32: a rule with no conditions matches every record.  A hiding-rule
\* group that is empty hides every single-agent record of a batch (the list
\* handed to the writer is empty), and a substitution rule without
\* conditions fires for every record that is not hidden.
C32_EmptyConditionsMatchEveryRecord ==
    /\ (result.op = "matches" /\ call.conditions = <<>>) => result.matched
    /\ (result.op = "hidden" /\ HasEmptyGroup(call.hiding_rules)) => result.hidden
    /\ (result.op = "substitute")
        => \A i \in DOMAIN call.substitution_rules :
               call.substitution_rules[i].conditions = <<>>
                   => i \in Range(result.fired)
    /\ (result.op = "run" /\ HasEmptyGroup(call.job.hiding_rules))
        => /\ \A n \in DOMAIN result.events : result.events[n].stage # "kept"
           /\ \A n \in DOMAIN result.sink_calls : result.sink_calls[n] = <<>>
    /\ (result.op = "run" /\ call.job = SubstituteAllJob)
        => \A n \in DOMAIN result.sink_calls :
               /\ Len(result.sink_calls[n]) =
                      Len(KeptRecords(call.dual_records, call.job))
               /\ \A k \in DOMAIN result.sink_calls[n] :
                      LET record == result.sink_calls[n][k]
                      IN  "fieldB" \in DOMAIN record /\ record.fieldB = StrVal("x")

\* A batch of two dual records, three single-agent records, all of them
\* hidden by the empty group: the writer gets the empty list.
C32_Witness ==
    /\ result.op = "run"
    /\ call.job = HideAllJob
    /\ call.dual_records = <<DualBoth, DualNoTs>>
    /\ ~result.raised
    /\ HasEvent(result.events, Event("hidden", 1, 2))
    /\ HasEvent(result.events, Event("hidden", 2, 2))
    /\ result.written = << <<>> >>

\* The rule without conditions fired for the record that was not hidden,
\* a record without the field the rule assigns.
C32_WitnessSubstitution ==
    /\ result.op = "run"
    /\ call.job = SubstituteAllJob
    /\ call.dual_records = <<DualBoth>>
    /\ result.written = << <<[fieldA |-> StrVal("2"), fieldB |-> StrVal("x"),
                              ts |-> IntVal(100)]>> >>

C33_WitnessMasked ==
    /\ result.op = "run"
    /\ call.job = MaskedHidingJob
    /\ call.dual_records = <<DualBoth>>
    /\ ~result.raised
    /\ result.written[1][1].fieldA = None
    /\ call.dual_records[1].client = [a |-> StrVal("1")]

\* C34: when a field of the agent and a shared top-level field have the
\* same output name, the single-agent record has the shared field's value
\* under that name; when a field of the mask set has the name of an agent
\* field or of a shared field, the record has None under it.  The mask
\* comes before the shared field, the shared field before the agent's.
C34_MaskOverSharedOverAgent ==
    (result.op = "get_agent_record" /\ ~result.raised)
        => LET table == call.job.field_translations[call.agent]
               agent_fields == call.dual_record[call.agent]
               mask == call.job.field_value_masks[call.agent]
           IN  /\ \A ka \in DOMAIN agent_fields :
                   \A ks \in SharedKeys(call.dual_record) :
                      (table[ka] = call.job.field_translations[ks]
                          /\ table[ka] \notin mask)
                          => result.record[table[ka]] = call.dual_record[ks]
               /\ \A ka \in DOMAIN agent_fields :
                      table[ka] \in mask => result.record[table[ka]] = None
               /\ \A ks \in SharedKeys(call.dual_record) :
                      call.job.field_translations[ks] \in mask
                          => result.record[call.job.field_translations[ks]] = None

\* The client's field b ("2") and the shared field ts (100) are both named
\* ts in the output: the record has 100.
C34_Witness ==
    /\ result.op = "get_agent_record"
    /\ call.agent = "client"
    /\ call.dual_record = DualFull
    /\ call.job.field_translations = CollidingTranslations
    /\ call.job.field_value_masks = NoMasks
    /\ call.dual_record.client.b # call.dual_record.ts
    /\ result.record = [fieldA |-> StrVal("1"), ts |-> IntVal(100)]

\* The same call with ts in the client's mask set: the record has None.
C34_WitnessMasked ==
    /\ result.op = "get_agent_record"
    /\ call.agent = "client"
    /\ call.dual_record = DualFull
    /\ call.job.field_translations = CollidingTranslations
    /\ call.job.field_value_masks = [client |-> {"ts"}, producer |-> {}]
    /\ result.record = [fieldA |-> StrVal("1"), ts |-> None]

Declares(fields, f, agent) == fields[f].has_agent /\ fields[f].agent = agent

\* C36: of the fields of the metadata file, one that declares the agent
\* "producer" is in the client's mask set and not in the producer's, one
\* that declares the agent "client" is in the producer's mask set and not
\* in the client's, and one with no agent entry is in neither; the mask sets
\* hold no other name.  So no field is masked for the agent it declares.
C36_MaskIsForTheOtherAgent ==
    (result.op = "get_field_value_masks")
        => LET fields == call.fields
               masks == result.masks
           IN  /\ DOMAIN masks = AgentKeys
               /\ masks.client \cup masks.producer \subseteq DOMAIN fields
               /\ \A f \in DOMAIN fields :
                    /\ Declares(fields, f, "producer")
                        => f \in masks.client /\ f \notin masks.producer
                    /\ Declares(fields, f, "client")
                        => f \in masks.producer /\ f \notin masks.client
                    /\ ~fields[f].has_agent
                        => f \notin masks.client /\ f \notin masks.producer
                    /\ \A agent \in AgentKeys :
                         Declares(fields, f, agent) => f \notin masks[agent]

\* One field of each kind.
C36_Witness ==
    /\ result.op = "get_field_value_masks"
    /\ call.fields = [fieldA |-> [has_agent |-> TRUE, agent |-> "producer"],
                      fieldB |-> [has_agent |-> TRUE, agent |-> "client"],
                      ts |-> [has_agent |-> FALSE, agent |-> ""]]
    /\ result.masks = [client |-> {"fieldA"}, producer |-> {"fieldB"}]

\* The order returned is an object with no key but column and order, and
\* its order is ASC or DESC in some letter case.
IsCleanOrder(order) ==
    /\ order.tag = "object"
    /\ DOMAIN order.items \subseteq ALLOWED_ORDER_KEYS
    /\ "order" \in DOMAIN order.items
    /\ order.items.order.tag = "string"
    /\ upper(order.items.order.s) \in ALLOWED_ORDER_ORDER_VALUES

\* C37 (as claimed): for every value of the order field clean_order ends by
\* returning the parsed order (the empty value as it is), an object with
\* only the keys column and order whose order is ASC or DESC in any letter
\* case, or by raising a validation error; no value makes it raise any
\* other error.
C37_CleanOrderReturnsOrRaisesValidationError ==
    (result.op = "clean_order")
        => /\ result.ended.outcome \in {"returned", "ValidationError"}
           /\ (result.ended.outcome = "returned" /\ call.order # "")
                  => IsCleanOrder(result.ended.order)

\* Whatever clean_order returns for a text that is not empty is such an
\* order, and a text that is not JSON or has another key raises a
\* validation error.
CleanOrderReturnsOnlyCleanOrders ==
    (result.op = "clean_order")
        => /\ (result.ended.outcome = "returned" /\ call.order # "")
                  => IsCleanOrder(result.ended.order)
           /\ json_loads(call.order).raised /\ call.order # ""
                  => result.ended.outcome = "ValidationError"

(***************************************************************************)
(* Properties of anonymize (checked under Spec).                           *)
(***************************************************************************)
\* A step of a call of anonymize: an iteration of the loop or the code
\* after the loop.
RunStep ==
    \/ LoopBreak
    \/ LoopAppend
    \/ LoopBatchCommitted
    \/ LoopBatchFailed
    \/ LoopEnd
    \/ ReturnCount
    \/ FinalBatchCommitted
    \/ FinalBatchRaised

Last(seq) == seq[Len(seq)]

RunBatches(r) == SelectSeq(handed, LAMBDA h : h.run = r)
CommittedBatches(r) == SelectSeq(handed, LAMBDA h : h.run = r /\ h.ok)

RECURSIVE RecordsIn(_)
RecordsIn(batches) ==
    IF batches = <<>> THEN 0
    ELSE Len(Head(batches).positions) + RecordsIn(Tail(batches))

RECURSIVE PositionsIn(_)
PositionsIn(batches) ==
    IF batches = <<>> THEN <<>>
    ELSE Head(batches).positions \o PositionsIn(Tail(batches))

RunEnded == pc \in {"returned", "raised"}

\* The last batch handed over in run r failed.
RunFailed(r) == RunBatches(r) # <<>> /\ ~Last(RunBatches(r)).ok

\* The cursor the reader had when run r began: the generator starts
\* right after it.
RunStartCursor(r) == timestamp_of(RunBatches(r)[1].positions[1] - 1)

\* The cursor after the last batch run r committed, or the one read when
\* the run began.
LastGoodCursor(r) ==
    IF CommittedBatches(r) = <<>> THEN RunStartCursor(r)
    ELSE timestamp_of(Last(Last(CommittedBatches(r)).positions))

\* C1 (as claimed): when anonymize ends after a batch failed, full-size or
\* final, the reader's cursor is the one after the last batch committed
\* before it, or the one read at the start of the run.
C1_FailedBatchRestoresCheckpoint ==
    (RunEnded /\ RunFailed(runs))
        => last_processed_timestamp = LastGoodCursor(runs)

JustCommittedFull ==
    /\ pc = "loop"
    /\ record_buffer = <<>>
    /\ RunBatches(runs) # <<>>

JustCommittedFinal ==
    /\ pc = "returned"
    /\ record_buffer # <<>>
    /\ RunBatches(runs) # <<>>
    /\ Last(RunBatches(runs)).ok

\* C2: right after a batch commits, full-size or final, the reader's
\* cursor is the cursor after the last record of that batch.
C2_CommitLeavesCursorAtBatchEnd ==
    (JustCommittedFull \/ JustCommittedFinal)
        => /\ Last(RunBatches(runs)).ok
           /\ last_processed_timestamp =
                  timestamp_of(Last(Last(RunBatches(runs)).positions))

\* A full batch of two records, then the final batch of one, both committed.
C2_Witness ==
    /\ JustCommittedFinal
    /\ runs = 1
    /\ Len(handed) = 2
    /\ handed[1].ok /\ handed[1].positions = <<1, 2>>
    /\ handed[2].positions = <<3>>
    /\ last_processed_timestamp = timestamp_of(3)

C3_Scenario ==
    /\ runs = 1
    /\ log_limit = NoLimit
    /\ writer_buffer_size = 2
    /\ Len(source) = 3
    /\ Len(handed) = 2
    /\ handed[1].ok
    /\ ~handed[2].ok /\ handed[2].positions = <<3>>
    /\ ~StepRaises(<<source[3]>>, job)
    /\ RunEnded

\* C3 (as claimed): batch size 2, three records, the sink raises on the
\* second batch (record 3): anonymize ends with the cursor after record 2
\* and reports 2.
C3_SinkFailureOnSecondBatch ==
    C3_Scenario => (last_processed_timestamp = timestamp_of(2) /\ returned = 2)

\* C4 (as claimed): whenever a batch fails, anonymize pulls no further
\* record, hands over no further batch and returns the number of records
\* of the batches committed before.
C4_FailureStopsAndReturnsCount ==
    (RunEnded /\ RunFailed(runs))
        => /\ gen_pos = Last(Last(RunBatches(runs)).positions)
           /\ pc = "returned"
           /\ returned = RecordsIn(CommittedBatches(runs))

FromTo(a, b) == [k \in 1..(b + 1 - a) |-> a + k - 1]

RetryCompleted ==
    /\ runs = 2
    /\ RunFailed(1)
    /\ pc = "returned"
    /\ log_limit = NoLimit
    /\ ~RunFailed(2)

\* C7 (as claimed): after a run in which a batch failed, a retry from the
\* cursor the run left (one that runs to the end of the source) hands over
\* the records of the failed batch and all that follow, and none of those
\* the earlier run committed.
C7_RetryResumesAtFailedBatch ==
    RetryCompleted
        => PositionsIn(RunBatches(2)) =
               FromTo(Last(RunBatches(1)).positions[1], Len(source))


\* The source is exhausted and records are left in the buffer.
RemainderWaiting == pc = "after_loop" /\ record_buffer # <<>>

\* anonymize has ended after running the remainder.
RemainderRun ==
    /\ RunEnded
    /\ record_buffer # <<>>
    /\ Len(record_buffer) < writer_buffer_size

HandedTimes(r, positions) ==
    Cardinality({n \in DOMAIN RunBatches(r) :
                    \E p \in DOMAIN positions :
                        \E q \in DOMAIN RunBatches(r)[n].positions :
                            RunBatches(r)[n].positions[q] = positions[p]})

\* C16: a non-empty remainder smaller than the batch size is handed to run
\* once, after the source is exhausted and as one batch; run treats it as any
\* batch, so what it writes is what survives of the remainder; when it
\* succeeds the remainder's records are added to the count returned.
C16_RemainderRunOnceAndCounted ==
    /\ RemainderWaiting
        => /\ Len(record_buffer) < writer_buffer_size
           /\ HandedTimes(runs, buffer_pos) = 0
    /\ RemainderRun
        => /\ HandedTimes(runs, buffer_pos) = 1
           /\ Last(RunBatches(runs)).positions = buffer_pos
           /\ Last(RunBatches(runs)).ok
                => /\ pc = "returned"
                   /\ Last(sink) = AllSurvivors(record_buffer, job)
                   /\ returned = processed_count
                   /\ returned =
                          writer_buffer_size * (Len(CommittedBatches(runs)) - 1)
                              + Len(record_buffer)

\* A remainder of two records with batch size three, run and counted.
C16_Witness ==
    /\ RemainderRun
    /\ pc = "returned"
    /\ writer_buffer_size = 3
    /\ buffer_pos = <<1, 2>>
    /\ RunBatches(runs) = <<[run |-> runs, positions |-> <<1, 2>>, ok |-> TRUE]>>
    /\ returned = 2

\* C20: the limit ends the loop only while the buffer is empty: whenever
\* the limit test of line 55 is true, in the loop or right after the break,
\* no record is waiting in the buffer.  So no batch is cut short by the
\* limit (a batch shorter than the batch size ends with the source's last
\* record) and none is discarded (records left in the buffer when anonymize
\* ends were handed to the job).
C20_LimitStopsBetweenBatches ==
    /\ (pc \in {"loop", "after_loop"} /\ LimitReached) => record_buffer = <<>>
    /\ \A n \in DOMAIN RunBatches(runs) :
         Len(RunBatches(runs)[n].positions) < writer_buffer_size
             => Last(RunBatches(runs)[n].positions) = Len(source)
    /\ (RunEnded /\ record_buffer # <<>>) => HandedTimes(runs, buffer_pos) = 1

\* The limit of one is reached after a full batch of two was committed: the
\* loop is left on the third record with an empty buffer.
C20_Witness ==
    /\ pc = "after_loop"
    /\ LimitReached
    /\ log_limit = 1
    /\ writer_buffer_size = 2
    /\ RunBatches(runs) = <<[run |-> runs, positions |-> <<1, 2>>, ok |-> TRUE]>>
    /\ gen_pos = 3
    /\ record_buffer = <<>>

\* The source positions of the records handed to the job so far, in any
\* call of anonymize.
HandedPositions == Range(PositionsIn(handed))

\* C21 (as claimed): every record the generator has yielded is in a batch
\* that was handed to the job or in the buffer; none was pulled and dropped,
\* also when the limit ended the loop.
C21_NoLookAhead ==
    \A p \in 1..gen_pos : p \in HandedPositions \/ p \in Range(buffer_pos)

\* The first source position the generator of call r yields from, minus one.
RunStartPos(r) ==
    IF r = 1 THEN 0
    ELSE IF RunBatches(r) = <<>> THEN gen_pos
    ELSE RunBatches(r)[1].positions[1] - 1

Unlimited == log_limit = NoLimit

NoBatchFailed(r) == \A n \in DOMAIN RunBatches(r) : RunBatches(r)[n].ok

AllHandedOnceAndCounted ==
    (RunEnded /\ Unlimited /\ NoBatchFailed(runs))
        => /\ pc = "returned"
           /\ PositionsIn(RunBatches(runs)) =
                  FromTo(RunStartPos(runs) + 1, Len(source))
           /\ returned = Len(source) - RunStartPos(runs)

Running == pc \in {"loop", "after_loop"}

\* A bound on the steps a call of anonymize can still take: two for each
\* record the source has yet to yield, and the steps that end the call.
StepsLeft ==
    2 * (Len(source) - gen_pos)
        + (IF pc = "loop" THEN 2 ELSE IF pc = "after_loop" THEN 1 ELSE 0)

\* The buffer is full with the record about to be appended: the batch is
\* run, and run either returns or raises.
BatchDue ==
    CanPull /\ ~LimitReached /\ Len(Appended) >= writer_buffer_size

StepPossible ==
    \/ ENABLED LoopEnd
    \/ ENABLED LoopBreak
    \/ ENABLED LoopAppend
    \/ ENABLED ReturnCount
    \/ BatchDue
    \/ RemainderWaiting

\* C22: a call of anonymize ends: while it runs it can always take a step,
\* and every step lowers a bound that never goes below zero.  When the call
\* had no limit and no batch failed, the batches handed to the job hold
\* every record the source had to yield, each once and in one batch, and the
\* count returned is the number of those records.
C22_UnlimitedRunHandsEveryRecordOnce ==
    /\ [](AllHandedOnceAndCounted)
    /\ [](Running => StepPossible)
    /\ [][RunStep => StepsLeft' < StepsLeft /\ StepsLeft' >= 0]_vars

\* Three records in a full batch of two and a remainder of one.
C22_Witness ==
    /\ RunEnded
    /\ Unlimited
    /\ runs = 1
    /\ Len(source) = 3
    /\ writer_buffer_size = 2
    /\ RunBatches(1) = <<[run |-> 1, positions |-> <<1, 2>>, ok |-> TRUE],
                         [run |-> 1, positions |-> <<3>>, ok |-> TRUE]>>
    /\ returned = 3

AllCommitted == SelectSeq(handed, LAMBDA h : h.ok)

Notifications == SelectSeq(logs, LAMBDA l : l.level = "info")

\* The records committed in the call of anonymize that handed over the
\* k-th committed batch, that batch included.
CommittedUpTo(k) ==
    RecordsIn(SelectSeq(SubSeq(AllCommitted, 1, k),
                        LAMBDA h : h.run = AllCommitted[k].run))

NotificationOf(k) ==
    [level |-> "info", tag |-> "record_batch_anonymized",
     count |-> CommittedUpTo(k),
     range_start |-> timestamp_of(AllCommitted[k].positions[1]),
     range_end |-> timestamp_of(Last(AllCommitted[k].positions)),
     last_successful |-> NoTimestamp]

\* C23 (as claimed): every batch that has committed, full-size or final,
\* has its progress notification, emitted with the write: it carries the
\* count of records anonymized and the cursor range of the batch, from the
\* cursor captured at the batch's first record to the cursor after its last.
C23_EveryCommitIsNotified ==
    /\ Len(sink) = Len(AllCommitted)
    /\ Len(Notifications) = Len(AllCommitted)
    /\ \A k \in DOMAIN Notifications : Notifications[k] = NotificationOf(k)

AllFailed == SelectSeq(handed, LAMBDA h : ~h.ok)

ErrorReports == SelectSeq(logs, LAMBDA l : l.level = "error")

\* C24 (as claimed): every failed batch has its error report, which
\* carries the cursor captured at the batch's first record, the cursor after
\* its last record and the last good checkpoint, the one being restored.
C24_ErrorReportCarriesRangeAndCheckpoint ==
    /\ Len(ErrorReports) = Len(AllFailed)
    /\ \A k \in DOMAIN ErrorReports :
         /\ ErrorReports[k].range_start =
                timestamp_of(AllFailed[k].positions[1])
         /\ ErrorReports[k].range_end =
                timestamp_of(Last(AllFailed[k].positions))
         /\ ErrorReports[k].last_successful = LastGoodCursor(AllFailed[k].run)

\* The buffer holds the records of the source at the positions noted for it.
BufferFromSource ==
    /\ Len(record_buffer) = Len(buffer_pos)
    /\ \A n \in DOMAIN buffer_pos : record_buffer[n] = source[buffer_pos[n]]

\* The positions are consecutive positions of the source, in its order.
Consecutive(positions) ==
    \A n \in DOMAIN positions : positions[n] = positions[1] + n - 1

HandedInSourceOrder ==
    /\ \A r \in 1..runs : Consecutive(PositionsIn(RunBatches(r)))
    /\ \A p \in Range(PositionsIn(RunBatches(runs))) : p <= gen_pos
    /\ \A n \in DOMAIN handed : handed[n].positions # <<>>

\* The first batch of a call starts with the first record the generator
\* yielded in the call: the one after the cursor read at line 49.
FirstBatchFromStart ==
    (handed' # handed /\ RunBatches(runs) = <<>>)
        => /\ handed' = Append(handed, Last(handed'))
           /\ Last(handed').run = runs
           /\ Last(handed').positions[1] =
                  position_of(last_successful_batch_timestamp) + 1

\* C27: in every call of anonymize, limited or not, failing or not, the
\* batches handed to the job, one after the other, are a prefix of the
\* records the source yielded in the call: they start with the first record
\* yielded and go on in the source's order, with no record twice, none left
\* out between two others and none out of order; and the records handed
\* over are the source's records at those positions.
C27_HandedBatchesArePrefixOfSource ==
    /\ [](HandedInSourceOrder)
    /\ [](BufferFromSource)
    /\ [][FirstBatchFromStart]_vars

\* A second call, limited to one record, after a first call whose second
\* batch failed: it hands over the record that failed and stops.
C27_Witness ==
    /\ writer_buffer_size = 1
    /\ Len(source) = 3
    /\ source[1] # source[2]
    /\ runs = 2
    /\ log_limit = 1
    /\ pc = "returned"
    /\ RunBatches(1) = <<[run |-> 1, positions |-> <<1>>, ok |-> TRUE],
                         [run |-> 1, positions |-> <<2>>, ok |-> FALSE]>>
    /\ RunBatches(2) = <<[run |-> 2, positions |-> <<2>>, ok |-> TRUE]>>
    /\ gen_pos = 3

BatchSize == IF writer_buffer_size >= 1 THEN writer_buffer_size ELSE 1

\* Every batch handed over has a record, and no more than the batch size.
BatchesWithinSize ==
    \A n \in DOMAIN handed :
        Len(handed[n].positions) \in 1..BatchSize

\* A batch handed over by an iteration of the loop (lines 62-66).
LoopBatchIsFull ==
    (pc = "loop" /\ handed' # handed)
        => /\ handed' = Append(handed, Last(handed'))
           /\ Len(Last(handed').positions) = BatchSize

\* The batch handed over after the loop (lines 88-89).
FinalBatchIsPartial ==
    (pc = "after_loop" /\ handed' # handed)
        => /\ handed' = Append(handed, Last(handed'))
           /\ writer_buffer_size >= 2
           /\ Len(Last(handed').positions) \in 1..(writer_buffer_size - 1)

\* C28: every batch handed to the job has a record; with a batch size B of
\* 1 or more a batch handed over in the loop has B records and the batch
\* handed over after the loop has from 1 to B-1; with a batch size of 0 (the
\* test of line 62 is then true of every buffer, as for any B <= 0) every
\* batch has one record.
C28_BatchSizes ==
    /\ [](BatchesWithinSize)
    /\ [][LoopBatchIsFull]_vars
    /\ [][FinalBatchIsPartial]_vars

\* A full batch of two and a final batch of one.
C28_Witness ==
    /\ writer_buffer_size = 2
    /\ pc = "raised"
    /\ runs = 1
    /\ RunBatches(1) = <<[run |-> 1, positions |-> <<1, 2>>, ok |-> TRUE],
                         [run |-> 1, positions |-> <<3>>, ok |-> FALSE]>>

\* With batch size 0 each record is a batch of its own.
C28_WitnessZero ==
    /\ writer_buffer_size = 0
    /\ pc = "returned"
    /\ runs = 1
    /\ Len(RunBatches(1)) = 3

\* The smallest multiple of b that is at least l (b >= 1, l >= 0).
CeilMultiple(l, b) == ((l + b - 1) \div b) * b

ReturnedIsCommittedDuals ==
    pc = "returned" => returned = RecordsIn(CommittedBatches(runs))

ReturnedWithinLimit ==
    (pc = "returned" /\ log_limit # NoLimit /\ writer_buffer_size >= 1)
        => returned <= CeilMultiple(log_limit, writer_buffer_size)

NothingDoneAtLimitZero ==
    (runs >= 1 /\ log_limit # NoLimit /\ log_limit <= 0)
        => /\ RunBatches(runs) = <<>>
           /\ pc = "returned" => returned = 0

\* C29: the count anonymize returns is the number of dual records of the
\* source in the batches the call committed, whatever the number of
\* single-agent records written for them; with a limit L and a batch size
\* B >= 1 it is at most the smallest multiple of B that is not below L; with
\* a limit of 0 (the test of line 55 is then true of every count, as for any
\* L <= 0) no batch is handed over and 0 is returned.
C29_ReturnedCount ==
    /\ ReturnedIsCommittedDuals
    /\ ReturnedWithinLimit
    /\ NothingDoneAtLimitZero

\* A limit of 1 and a batch size of 3: three dual records are committed
\* and counted, two more than the limit, and the number of single-agent
\* records written for them is another.
C29_Witness ==
    /\ runs = 1
    /\ log_limit = 1
    /\ writer_buffer_size = 3
    /\ pc = "returned"
    /\ returned = 3
    /\ Len(sink) = 1
    /\ Len(sink[1]) \in 1..2

\* A limit of 0 on a source with records: nothing is handed over.
C29_WitnessZero ==
    /\ runs = 1
    /\ log_limit = 0
    /\ Len(source) = 3
    /\ writer_buffer_size = 1
    /\ pc = "returned"
    /\ returned = 0
    /\ handed = <<>>

\* In a call of anonymize the checkpoint (last_successful_batch_timestamp)
\* never decreases.
CheckpointNeverDecreases ==
    runs' = runs
        => last_successful_batch_timestamp' >= last_successful_batch_timestamp

\* Lines 74-75 have set the cursor back and anonymize has returned.
RolledBack == pc = "returned" /\ RunFailed(runs)

RollbackWithinRun ==
    RolledBack
        => /\ last_processed_timestamp >= RunStartCursor(runs)
           /\ last_processed_timestamp = last_successful_batch_timestamp
           /\ IF CommittedBatches(runs) = <<>>
              THEN last_processed_timestamp = RunStartCursor(runs)
              ELSE last_processed_timestamp <=
                       timestamp_of(Last(Last(CommittedBatches(runs)).positions))

\* C35: with a source whose cursor never decreases as records are consumed
\* (timestamp_of), the checkpoint held by a call of anonymize never
\* decreases during the call, and a rollback sets the cursor to a value
\* that is not below the cursor read when the call began and not above the
\* end cursor of the last batch the call committed (to the cursor read when
\* the call began, when the call committed no batch).
C35_CheckpointMonotoneRollbackBounded ==
    /\ [][CheckpointNeverDecreases]_vars
    /\ [](RollbackWithinRun)

\* A second call that began at 1001, committed a batch and then rolled
\* back to that batch's end.
C35_Witness ==
    /\ RolledBack
    /\ runs = 2
    /\ writer_buffer_size = 1
    /\ RunStartCursor(2) = 1001
    /\ Len(CommittedBatches(2)) = 1
    /\ last_processed_timestamp = 1002
    /\ last_successful_batch_timestamp = 1002
====
